---------------------------- MODULE Spec2Model ----------------------------
(***************************************************************************)
(* Model of the payroll dashboards of Sal_Repo: the internal dashboard     *)
(* (src/dashboard/app.js, second script, lines 141-698) and the public     *)
(* dashboard (src/unnamed/part_000, first script, lines 1-384).            *)
(*                                                                         *)
(* Representation of JavaScript values:                                    *)
(*  - a string is the sequence of its characters; a character is a TLA+     *)
(*    string (an ASCII character stands for itself); the empty string is   *)
(*    <<>>;                                                                *)
(*  - a number is an integer counting TENTHS, so "0.5" is 5 and "50000" is *)
(*    500000; NaN is the integer NaN below, outside the range of every     *)
(*    number the model builds;                                             *)
(*  - a row (raw or ingested) is a function from column names to values;   *)
(*    a column that the CSV header does not have is not in its DOMAIN      *)
(*    (JavaScript: the property is undefined).                             *)
(***************************************************************************)
EXTENDS Integers, Sequences, FiniteSets, TLC

VARIABLES
    page,           \* "internal" (dashboard/app.js) or "public" (part_000)
    url,            \* window.location query string: [view, month]
    csv,            \* what fetch + Papa.parse will deliver: [ok, data]
    phase,          \* position of init(): "loading", "loaded", "failed"
    rows,           \* state.rows
    filters,        \* state.filters: [eventType, scope, month]
    chartInterval,  \* state.chartInterval
    chartMode,      \* value of the #chart-mode select
    monthOptions,   \* option values of the month select, in order
    eventOptions,   \* option values of the event-type select, in order
    summary,        \* what the summary cards show
    chart,          \* what the chart shows
    caption,        \* text of #chart-caption
    table,          \* what the table body shows
    canvas,         \* the chart canvas is in the document
    instances,      \* the Chart objects made so far and what state.chart holds
    out             \* result of the last pure-function step (harness specs)

vars == <<page, url, csv, phase, rows, filters, chartInterval, chartMode,
          monthOptions, eventOptions, summary, chart, caption, table, canvas,
          instances, out>>

----------------------------------------------------------------------------
(* Strings                                                                 *)

\* Characters in ascending UTF-16 code-unit order (the order of JavaScript's
\* string comparison and of Array.prototype.sort without a comparator).
Alphabet ==
    <<" ", "-", ".", "/", "0", "1", "2", "3", "4", "5", "6", "7", "8", "9",
      "A", "C", "D", "E", "H", "I", "M", "N", "O", "P", "T", "W",
      "a", "b", "c", "d", "e", "h", "i", "k", "l", "m", "n", "o", "p", "r",
      "s", "t", "u", "w", "x",
      "U+00CA", "U+00EA", "U+0110", "U+0111",
      "U+0302", "U+031B", "U+0323", "U+1EA0", "U+1EA1", "U+1EF1">>

Code(c) == CHOOSE i \in 1..Len(Alphabet) : Alphabet[i] = c

\* a < b for JavaScript strings: the first differing code unit decides, and a
\* proper prefix is smaller.
RECURSIVE StrLess(_, _)
StrLess(a, b) ==
    IF b = <<>> THEN FALSE
    ELSE IF a = <<>> THEN TRUE
    ELSE IF Head(a) = Head(b) THEN StrLess(Tail(a), Tail(b))
    ELSE Code(Head(a)) < Code(Head(b))

\* String.prototype.slice(0, n)
Slice0(s, n) == SubSeq(s, 1, IF Len(s) < n THEN Len(s) ELSE n)

\* String.prototype.includes: needle occurs in hay as a contiguous substring
Includes(hay, needle) ==
    \E i \in 0..(Len(hay) - Len(needle)) :
        SubSeq(hay, i + 1, i + Len(needle)) = needle

IsSpace(c) == c = " "
Digits == {"0", "1", "2", "3", "4", "5", "6", "7", "8", "9"}
DigitVal(c) == Code(c) - Code("0")

\* String.prototype.trim
RECURSIVE TrimLeft(_)
TrimLeft(s) ==
    IF s # <<>> /\ IsSpace(Head(s)) THEN TrimLeft(Tail(s)) ELSE s

RECURSIVE TrimRight(_)
TrimRight(s) ==
    IF s # <<>> /\ IsSpace(s[Len(s)]) THEN TrimRight(SubSeq(s, 1, Len(s) - 1))
    ELSE s

Trim(s) == TrimRight(TrimLeft(s))

----------------------------------------------------------------------------
(* Numbers                                                                 *)

Scale == 10
NaN == -1000000000

IsNaN(x) == x = NaN

\* JavaScript +, - and the truthiness of a number
Add(a, b) == IF IsNaN(a) \/ IsNaN(b) THEN NaN ELSE a + b
Sub(a, b) == IF IsNaN(a) \/ IsNaN(b) THEN NaN ELSE a - b
OrZero(x) == IF IsNaN(x) THEN 0 ELSE x

\* Math.round: to the nearest integer, halves towards +Infinity; the result
\* is again a count of tenths.
MathRound(x) ==
    IF IsNaN(x) THEN NaN ELSE ((x + Scale \div 2) \div Scale) * Scale

RECURSIVE DigitsValue(_)
DigitsValue(s) ==
    IF s = <<>> THEN 0
    ELSE DigitsValue(SubSeq(s, 1, Len(s) - 1)) * 10 + DigitVal(s[Len(s)])

AllDigits(s) == \A i \in 1..Len(s) : s[i] \in Digits

\* The unsigned decimal literals the model reads: digits, optionally followed
\* by "." and one digit.
IsDecimal(s) ==
    \/ s # <<>> /\ AllDigits(s)
    \/ /\ Len(s) >= 3
       /\ s[Len(s) - 1] = "."
       /\ AllDigits(SubSeq(s, 1, Len(s) - 2))
       /\ s[Len(s)] \in Digits

DecimalValue(s) ==
    IF AllDigits(s) THEN DigitsValue(s) * Scale
    ELSE DigitsValue(SubSeq(s, 1, Len(s) - 2)) * Scale + DigitVal(s[Len(s)])

\* Number(string): white space is trimmed, the empty string is 0, a decimal
\* literal (with an optional sign) is its value, any other text is NaN.
Number(s) ==
    LET t == Trim(s) IN
    IF t = <<>> THEN 0
    ELSE IF IsDecimal(t) THEN DecimalValue(t)
    ELSE IF Head(t) = "-" /\ IsDecimal(Tail(t)) THEN 0 - DecimalValue(Tail(t))
    ELSE NaN

----------------------------------------------------------------------------
(* Rows                                                                    *)

Has(row, col) == col \in DOMAIN row

\* `row.col` used as a condition: undefined and "" are falsy
Truthy(row, col) == Has(row, col) /\ row[col] # <<>>

\* `row.col || ""` for a text column
Text(row, col) == IF Has(row, col) THEN row[col] ELSE <<>>

\* Number(row.col || 0)
NumberOrZero(row, col) == IF Truthy(row, col) THEN Number(row[col]) ELSE 0

\* `row[col] || 0` on an ingested row, where col holds a number or is undefined
FieldOrZero(row, col) == IF Has(row, col) THEN OrZero(row[col]) ELSE 0

\* `row[col]` on an ingested row in an addition: undefined + n is NaN
FieldValue(row, col) == IF Has(row, col) THEN row[col] ELSE NaN

InternalNumeric ==
    {"base_pay", "ot_minutes", "ot_pay", "total_pay", "worker_payment",
     "net_income"}

PublicNumeric == {"ot_minutes", "ot_pay", "total_pay"}

\* Faulty variant of IngestInternal: the net_income column is tested after
\* its conversion, so a net income of 0 counts as missing.
IngestInternalZeroIsMissing(row) ==
    LET basePay       == NumberOrZero(row, "base_pay")
        otMinutes     == NumberOrZero(row, "ot_minutes")
        otPay         == NumberOrZero(row, "ot_pay")
        totalPay      == NumberOrZero(row, "total_pay")
        workerPayment == NumberOrZero(row, "worker_payment")
        netIncome     == IF Truthy(row, "net_income")
                            /\ Number(row["net_income"]) # 0
                            /\ ~IsNaN(Number(row["net_income"]))
                         THEN Number(row["net_income"])
                         ELSE Sub(totalPay, workerPayment)
    IN  [c \in DOMAIN row \cup InternalNumeric |->
            CASE c = "base_pay"       -> basePay
              [] c = "ot_minutes"     -> otMinutes
              [] c = "ot_pay"         -> otPay
              [] c = "total_pay"      -> totalPay
              [] c = "worker_payment" -> workerPayment
              [] c = "net_income"     -> netIncome
              [] OTHER                -> row[c]]

\* The object literal of loadCsv's map callback (internal dashboard):
\* {...row, base_pay, ot_minutes, ot_pay, total_pay, worker_payment, net_income}
IngestInternal(row) ==
    LET basePay       == NumberOrZero(row, "base_pay")
        otMinutes     == NumberOrZero(row, "ot_minutes")
        otPay         == NumberOrZero(row, "ot_pay")
        totalPay      == NumberOrZero(row, "total_pay")
        workerPayment == NumberOrZero(row, "worker_payment")
        netIncome     == IF Truthy(row, "net_income")
                         THEN Number(row["net_income"])
                         ELSE Sub(totalPay, workerPayment)
    IN  [c \in DOMAIN row \cup InternalNumeric |->
            CASE c = "base_pay"       -> basePay
              [] c = "ot_minutes"     -> otMinutes
              [] c = "ot_pay"         -> otPay
              [] c = "total_pay"      -> totalPay
              [] c = "worker_payment" -> workerPayment
              [] c = "net_income"     -> netIncome
              [] OTHER                -> row[c]]

\* The object literal of loadCsv's map callback (public dashboard):
\* {...row, ot_minutes, ot_pay, total_pay}
IngestPublic(row) ==
    [c \in DOMAIN row \cup PublicNumeric |->
        CASE c = "ot_minutes" -> NumberOrZero(row, "ot_minutes")
          [] c = "ot_pay"     -> NumberOrZero(row, "ot_pay")
          [] c = "total_pay"  -> NumberOrZero(row, "total_pay")
          [] OTHER            -> row[c]]

IngestRow(pg, row) ==
    IF pg = "internal" THEN IngestInternal(row) ELSE IngestPublic(row)

\* Faulty variant of DatedRows: the filter tests that the date column exists, not
\* that it holds a date.
DatedRowsKeepBlank(data) == SelectSeq(data, LAMBDA row : Has(row, "date"))

\* parsed.data.filter((row) => row.date)
RECURSIVE DatedRows(_)
DatedRows(data) ==
    IF data = <<>> THEN <<>>
    ELSE IF Truthy(Head(data), "date")
         THEN <<Head(data)>> \o DatedRows(Tail(data))
         ELSE DatedRows(Tail(data))

\* loadCsv after a successful fetch: filter, then map, order kept
LoadCsv(pg, data) ==
    LET kept == DatedRows(data)
    IN  [i \in 1..Len(kept) |-> IngestRow(pg, kept[i])]

----------------------------------------------------------------------------
(* Text normalisation and scopes                                           *)

\* String.prototype.normalize("NFD") on one character: the precomposed
\* letters of the alphabet split into base letter and combining mark.
Decompose(c) ==
    CASE c = "U+00CA" -> <<"E", "U+0302">>
      [] c = "U+00EA" -> <<"e", "U+0302">>
      [] c = "U+1EA0" -> <<"A", "U+0323">>
      [] c = "U+1EA1" -> <<"a", "U+0323">>
      [] c = "U+1EF1" -> <<"u", "U+031B", "U+0323">>
      [] OTHER        -> <<c>>

RECURSIVE NFD(_)
NFD(s) == IF s = <<>> THEN <<>> ELSE Decompose(Head(s)) \o NFD(Tail(s))

\* the range [U+0300-U+036F]
IsCombining(c) == c \in {"U+0302", "U+031B", "U+0323"}

LowerCase(c) ==
    CASE c = "A" -> "a" [] c = "C" -> "c" [] c = "D" -> "d" [] c = "E" -> "e"
      [] c = "H" -> "h" [] c = "I" -> "i" [] c = "M" -> "m" [] c = "N" -> "n"
      [] c = "O" -> "o" [] c = "P" -> "p" [] c = "T" -> "t" [] c = "W" -> "w"
      [] c = "U+0110" -> "U+0111"
      [] OTHER -> c

\* replace(/[U+0300-U+036F]/g, "")
StripMarks(s) == SelectSeq(s, LAMBDA c : ~IsCombining(c))

\* toLowerCase()
ToLowerCase(s) == [i \in 1..Len(s) |-> LowerCase(s[i])]

\* replace(/U+0111/g, "d")
FoldStroke(s) == [i \in 1..Len(s) |-> IF s[i] = "U+0111" THEN "d" ELSE s[i]]

\* replace(/\s+/g, "")
StripSpaces(s) == SelectSeq(s, LAMBDA c : ~IsSpace(c))

\* Faulty variant of NormalizeText: the stroke is folded before the text is
\* put in lower case.
NormalizeTextFoldFirst(value) == ToLowerCase(FoldStroke(StripMarks(NFD(value))))

\* normalizeText(value): (value || "").toString().normalize("NFD")
\*   .replace(marks, "").toLowerCase().replace(/U+0111/g, "d")
NormalizeText(value) == FoldStroke(ToLowerCase(StripMarks(NFD(value))))

\* eventTypeMatches(value, keywords)
EventTypeMatches(value, keywords) ==
    LET normalized == StripSpaces(NormalizeText(value))
    IN  \E k \in 1..Len(keywords) :
            Includes(normalized, StripSpaces(NormalizeText(keywords[k])))

OpenMicKeywords ==
    << <<"o", "p", "e", "n", " ", "m", "i", "c">>,
       <<"o", "p", "e", "n", "m", "i", "c">> >>

LiveShowKeywords ==
    << <<"d", "e", "m", " ", "n", "h", "a", "c">>,
       <<"d", "e", "m", "n", "h", "a", "c">> >>

\* the keys of VIEW_SCOPES
ScopeKeys == {"all", "open_mic", "live_show"}

\* VIEW_SCOPES[scope].predicate exists
HasPredicate(scope) == scope \in {"open_mic", "live_show"}

\* VIEW_SCOPES[scope].predicate(row)
ScopePredicate(scope, row) ==
    IF scope = "open_mic"
    THEN EventTypeMatches(Text(row, "event_type"), OpenMicKeywords)
    ELSE EventTypeMatches(Text(row, "event_type"), LiveShowKeywords)

----------------------------------------------------------------------------
(* Filter pipeline: rs is state.rows, f is state.filters                   *)

\* the string "all"
ALL == <<"a", "l", "l">>

\* row.date.slice(0, 7)
MonthOf(row) == Slice0(row["date"], 7)

GetScopedRows(rs, f) ==
    IF f.scope \notin ScopeKeys \/ ~HasPredicate(f.scope) THEN rs
    ELSE SelectSeq(rs, LAMBDA row : ScopePredicate(f.scope, row))

\* Faulty variant of ApplyMonthFilter: the whole date is compared with the month.
ApplyMonthFilterWholeDate(rs, f) ==
    IF f.month = ALL THEN rs
    ELSE SelectSeq(rs, LAMBDA row : Truthy(row, "date") /\ row["date"] = f.month)

ApplyMonthFilter(rs, f) ==
    IF f.month = ALL THEN rs
    ELSE SelectSeq(rs, LAMBDA row : Truthy(row, "date") /\ MonthOf(row) = f.month)

GetScopeAndMonthRows(rs, f) == ApplyMonthFilter(GetScopedRows(rs, f), f)

\* the event-type step of getFilteredRows()
ApplyEventFilter(rs, f) ==
    IF f.eventType = ALL THEN rs
    ELSE SelectSeq(rs, LAMBDA row : Has(row, "event_type")
                                    /\ row["event_type"] = f.eventType)

GetFilteredRows(rs, f) == ApplyEventFilter(GetScopeAndMonthRows(rs, f), f)

----------------------------------------------------------------------------
(* Summary cards                                                           *)

\* currency.format(x) with maximumFractionDigits 0: the amount in whole
\* units, halves away from zero (the digits shown; the currency sign and the
\* grouping are left out).
CurrencyFormat(x) ==
    IF IsNaN(x) THEN NaN
    ELSE IF x >= 0 THEN ((x + Scale \div 2) \div Scale) * Scale
    ELSE 0 - (((0 - x + Scale \div 2) \div Scale) * Scale)

\* rows.reduce((sum, row) => sum + (row[col] || 0), 0)
RECURSIVE SumOrZero(_, _)
SumOrZero(rs, col) ==
    IF rs = <<>> THEN 0
    ELSE SumOrZero(SubSeq(rs, 1, Len(rs) - 1), col)
         + FieldOrZero(rs[Len(rs)], col)

\* rows.reduce((sum, row) => sum + row[col], 0)
RECURSIVE SumField(_, _)
SumField(rs, col) ==
    IF rs = <<>> THEN 0
    ELSE Add(SumField(SubSeq(rs, 1, Len(rs) - 1), col),
             FieldValue(rs[Len(rs)], col))

\* the marker of a self-performed shift, "T" followed by U+1EF1
SelfMarker == <<"T", "U+1EF1">>

\* rows.filter((row) => (row.performed_by || "").includes(marker)).length
SelfCount(rs) ==
    Len(SelectSeq(rs, LAMBDA row : Includes(Text(row, "performed_by"), SelfMarker)))

\* Faulty variant of LastDate: the file is taken to be in date order.
LastDateOfLastRow(rs) == rs[Len(rs)]["date"]

\* rows.reduce((max, row) => (row.date > max ? row.date : max), rows[0].date)
RECURSIVE LastDate(_)
LastDate(rs) ==
    IF Len(rs) = 1 THEN rs[1]["date"]
    ELSE LET max == LastDate(SubSeq(rs, 1, Len(rs) - 1))
             d   == rs[Len(rs)]["date"]
         IN  IF StrLess(max, d) THEN d ELSE max

\* the text of #last-updated
Stamp(kind, date) == [kind |-> kind, date |-> date]
StampBlank   == Stamp("blank", <<>>)      \* ""
StampDashes  == Stamp("dashes", <<>>)     \* "--"
StampNoData  == Stamp("no-data", <<>>)    \* the no-data-for-this-view text
StampUpdated(date) == Stamp("updated", date)

\* the element ids of the internal summary cards; "self" and "outsourced" are
\* the two numbers of #self-vs-outsourced
InternalCards ==
    {"total-pay", "net-income", "total-worker-pay", "total-ot", "total-shifts",
     "self", "outsourced", "last-updated"}

\* updateSummary(rows) of the internal dashboard: element id -> text
UpdateSummaryInternal(rs) ==
    IF rs = <<>>
    THEN [ id \in InternalCards |->
             IF id = "last-updated" THEN StampNoData ELSE 0 ]
    ELSE LET totalPay    == SumOrZero(rs, "total_pay")
             totalOt     == SumOrZero(rs, "ot_minutes")
             totalWorker == SumOrZero(rs, "worker_payment")
             totalNet    == SumOrZero(rs, "net_income")
             selfCount   == SelfCount(rs)
             outsourced  == Len(rs) - selfCount
         IN  [ id \in InternalCards |->
                 CASE id = "total-pay"        -> CurrencyFormat(totalPay)
                   [] id = "net-income"       -> CurrencyFormat(totalNet)
                   [] id = "total-worker-pay" -> CurrencyFormat(totalWorker)
                   [] id = "total-ot"         -> totalOt
                   [] id = "total-shifts"     -> Len(rs)
                   [] id = "self"             -> selfCount
                   [] id = "outsourced"       -> outsourced
                   [] OTHER                   -> StampUpdated(LastDate(rs)) ]

\* the element ids of the public summary cards
PublicCards ==
    {"total-shifts", "total-ot", "total-ot-pay", "total-pay", "last-updated"}

\* updateSummary(rows) of the public dashboard
UpdateSummaryPublic(rs) ==
    IF rs = <<>>
    THEN [ id \in PublicCards |->
             IF id = "last-updated" THEN StampNoData ELSE 0 ]
    ELSE [ id \in PublicCards |->
             CASE id = "total-shifts" -> Len(rs)
               [] id = "total-ot"     -> SumField(rs, "ot_minutes")
               [] id = "total-ot-pay" -> CurrencyFormat(SumField(rs, "ot_pay"))
               [] id = "total-pay"    -> CurrencyFormat(SumField(rs, "total_pay"))
               [] OTHER               -> StampUpdated(LastDate(rs)) ]

\* Faulty variant of UpdateSummary: an empty record set shows the cards of the
\* empty state, whose stamp is not the no-data-for-this-view text.
UpdateSummaryAsEmptyState(pg, rs) ==
    IF rs # <<>>
    THEN (IF pg = "internal" THEN UpdateSummaryInternal(rs)
          ELSE UpdateSummaryPublic(rs))
    ELSE IF pg = "internal"
         THEN [UpdateSummaryInternal(<<>>) EXCEPT !["last-updated"] = StampBlank]
         ELSE [UpdateSummaryPublic(<<>>) EXCEPT !["last-updated"] = StampDashes]

UpdateSummary(pg, rs) ==
    IF pg = "internal" THEN UpdateSummaryInternal(rs) ELSE UpdateSummaryPublic(rs)

\* the summary cards after renderEmptyState()
EmptySummary(pg) ==
    IF pg = "internal"
    THEN [UpdateSummaryInternal(<<>>) EXCEPT !["last-updated"] = StampBlank]
    ELSE [UpdateSummaryPublic(<<>>) EXCEPT !["last-updated"] = StampDashes]

----------------------------------------------------------------------------
(* Charts                                                                  *)

\* the bucket key of a row: row.date.slice(0, 7) or row.date
KeyOf(row, granularity) ==
    IF granularity = "month" THEN MonthOf(row) ELSE row["date"]

\* Faulty variant of Buckets: every intermediate sum is rounded.
RECURSIVE BucketsRoundedEachStep(_, _, _)
BucketsRoundedEachStep(rs, metric, granularity) ==
    IF rs = <<>> THEN [k \in {} |-> 0]
    ELSE LET acc == BucketsRoundedEachStep(SubSeq(rs, 1, Len(rs) - 1), metric,
                                           granularity)
             row == rs[Len(rs)]
             key == KeyOf(row, granularity)
             old == IF key \in DOMAIN acc THEN OrZero(acc[key]) ELSE 0
         IN  [k \in DOMAIN acc \cup {key} |->
                 IF k = key THEN MathRound(old + FieldOrZero(row, metric))
                 ELSE acc[k]]

\* rows.forEach((row) => { acc[key] = (acc[key] || 0) + (row[metric] || 0) })
RECURSIVE Buckets(_, _, _)
Buckets(rs, metric, granularity) ==
    IF rs = <<>> THEN [k \in {} |-> 0]
    ELSE LET acc == Buckets(SubSeq(rs, 1, Len(rs) - 1), metric, granularity)
             row == rs[Len(rs)]
             key == KeyOf(row, granularity)
             old == IF key \in DOMAIN acc THEN OrZero(acc[key]) ELSE 0
         IN  [k \in DOMAIN acc \cup {key} |->
                 IF k = key THEN old + FieldOrZero(row, metric) ELSE acc[k]]

\* rows.forEach((row) => { byDay[key] = (byDay[key] || 0) + row.ot_minutes })
RECURSIVE BucketsPublic(_)
BucketsPublic(rs) ==
    IF rs = <<>> THEN [k \in {} |-> 0]
    ELSE LET acc == BucketsPublic(SubSeq(rs, 1, Len(rs) - 1))
             row == rs[Len(rs)]
             key == row["date"]
             old == IF key \in DOMAIN acc THEN OrZero(acc[key]) ELSE 0
         IN  [k \in DOMAIN acc \cup {key} |->
                 IF k = key THEN Add(old, FieldValue(row, "ot_minutes"))
                 ELSE acc[k]]

\* Object.keys(acc).sort(): ascending code-unit order
RECURSIVE SortAsc(_)
SortAsc(S) ==
    IF S = {} THEN <<>>
    ELSE LET m == CHOOSE x \in S : \A y \in S \ {x} : StrLess(x, y)
         IN  <<m>> \o SortAsc(S \ {m})

\* Array.from(new Set(...)).sort((a, b) => (a > b ? -1 : 1)): descending
RECURSIVE SortDesc(_)
SortDesc(S) ==
    IF S = {} THEN <<>>
    ELSE LET m == CHOOSE x \in S : \A y \in S \ {x} : StrLess(y, x)
         IN  <<m>> \o SortDesc(S \ {m})

\* the distinct truthy row.date.slice(0, 7) of the rows
MonthsOf(rs) ==
    { MonthOf(rs[i]) : i \in { j \in 1..Len(rs) :
                                 Truthy(rs[j], "date") /\ MonthOf(rs[j]) # <<>> } }

\* state.chart: null, or the Chart built from a config
NoChart == [type |-> "none", metric |-> "none", labels |-> <<>>, data |-> <<>>]

Caption(kind, month) == [kind |-> kind, month |-> month]

\* CHART_LABELS[metric] || CHART_LABELS.total_pay
ChartLabel(metric) ==
    IF metric \in {"total_pay", "net_income", "ot_pay"} THEN metric ELSE "total_pay"

\* renderMonthlyChart(rows, metric) followed by drawChart(config)
RenderMonthlyChart(rs, metric) ==
    LET monthly == Buckets(rs, metric, "month")
        labels  == SortAsc(DOMAIN monthly)
        data    == [i \in 1..Len(labels) |-> MathRound(monthly[labels[i]])]
    IN  [chart   |-> [type |-> "bar", metric |-> ChartLabel(metric),
                      labels |-> labels, data |-> data],
         caption |-> Caption("month", <<>>)]

\* Faulty variant of GetDailyChartRows: the months are taken to be sorted
\* ascending, so the first one is the earliest.
GetDailyChartRowsEarliest(rs, f) ==
    LET months == SortAsc(MonthsOf(rs))
    IN  IF months = <<>> THEN [month |-> <<>>, rows |-> <<>>]
        ELSE LET selectedMonth ==
                     IF f.month = ALL \/ f.month \notin MonthsOf(rs)
                     THEN months[1] ELSE f.month
             IN  [month |-> selectedMonth,
                  rows  |-> SelectSeq(rs, LAMBDA row :
                                Truthy(row, "date") /\ MonthOf(row) = selectedMonth)]

\* getDailyChartRows(rows)
GetDailyChartRows(rs, f) ==
    LET months == SortDesc(MonthsOf(rs))
    IN  IF months = <<>> THEN [month |-> <<>>, rows |-> <<>>]
        ELSE LET selectedMonth ==
                     IF f.month = ALL \/ f.month \notin MonthsOf(rs)
                     THEN months[1] ELSE f.month
             IN  [month |-> selectedMonth,
                  rows  |-> SelectSeq(rs, LAMBDA row :
                                Truthy(row, "date") /\ MonthOf(row) = selectedMonth)]

\* renderDailyChart(rows, metric)
RenderDailyChart(rs, metric, f) ==
    LET picked == GetDailyChartRows(rs, f)
    IN  IF picked.month = <<>> \/ picked.rows = <<>>
        THEN [chart |-> NoChart, caption |-> Caption("day-empty", <<>>)]
        ELSE LET daily  == Buckets(picked.rows, metric, "day")
                 labels == SortAsc(DOMAIN daily)
                 data   == [i \in 1..Len(labels) |-> MathRound(daily[labels[i]])]
             IN  [chart   |-> [type |-> "line", metric |-> ChartLabel(metric),
                               labels |-> labels, data |-> data],
                  caption |-> Caption("day", picked.month)]

\* renderChart(rows) of the internal dashboard
RenderChartInternal(rs, metric, interval, f) ==
    IF rs = <<>>
    THEN [chart   |-> NoChart,
          caption |-> Caption(IF interval = "day" THEN "day-empty"
                              ELSE "month-empty", <<>>)]
    ELSE IF interval = "day" THEN RenderDailyChart(rs, metric, f)
    ELSE RenderMonthlyChart(rs, metric)

\* renderChart(rows) of the public dashboard: OT minutes by day, not rounded;
\* the page has no caption
RenderChartPublic(rs, oldCaption) ==
    LET byDay  == BucketsPublic(rs)
        labels == SortAsc(DOMAIN byDay)
    IN  [chart   |-> [type |-> "line", metric |-> "ot_minutes",
                      labels |-> labels,
                      data |-> [i \in 1..Len(labels) |-> byDay[labels[i]]]],
         caption |-> oldCaption]

----------------------------------------------------------------------------
(* Table                                                                   *)

\* a date-only ISO string, YYYY-MM-DD with a month 01..12 and a day 01..31
IsIsoDate(d) ==
    /\ Len(d) = 10
    /\ AllDigits(SubSeq(d, 1, 4)) /\ d[5] = "-"
    /\ AllDigits(SubSeq(d, 6, 7)) /\ d[8] = "-"
    /\ AllDigits(SubSeq(d, 9, 10))
    /\ DigitsValue(SubSeq(d, 6, 7)) \in 1..12
    /\ DigitsValue(SubSeq(d, 9, 10)) \in 1..31

\* new Date(d) as a number: NaN for a string that is no date, else a value
\* that grows with the calendar date (year, month, day in this order)
DateValue(d) ==
    IF IsIsoDate(d)
    THEN DigitsValue(SubSeq(d, 1, 4)) * 10000
         + DigitsValue(SubSeq(d, 6, 7)) * 100
         + DigitsValue(SubSeq(d, 9, 10))
    ELSE NaN

\* the comparator (a, b) => new Date(b.date) - new Date(a.date); sort takes a
\* NaN result as 0
CompareDesc(a, b) == OrZero(Sub(DateValue(b["date"]), DateValue(a["date"])))

\* insert row behind the last element that does not sort after it
RECURSIVE InsertDesc(_, _)
InsertDesc(sorted, row) ==
    IF sorted = <<>> THEN <<row>>
    ELSE IF CompareDesc(sorted[Len(sorted)], row) <= 0
         THEN Append(sorted, row)
         ELSE Append(InsertDesc(SubSeq(sorted, 1, Len(sorted) - 1), row),
                     sorted[Len(sorted)])

\* [...rows].sort(comparator): a stable sort of a copy
RECURSIVE SortByDateDesc(_)
SortByDateDesc(rs) ==
    IF rs = <<>> THEN <<>>
    ELSE InsertDesc(SortByDateDesc(SubSeq(rs, 1, Len(rs) - 1)), rs[Len(rs)])

\* .slice(0, 20) of the internal table
TableCap == 20

Shown(msg, shown) == [msg |-> msg, rows |-> shown]

\* Faulty variant of RenderTable: the internal table takes the first 20 rows
\* and sorts them afterwards.
RenderTableCapFirst(pg, rs) ==
    IF rs = <<>> THEN Shown("no-match", <<>>)
    ELSE IF pg = "internal"
         THEN Shown("rows", SortByDateDesc(SubSeq(rs, 1,
                        IF Len(rs) < TableCap THEN Len(rs) ELSE TableCap)))
         ELSE Shown("rows", SortByDateDesc(rs))

\* renderTable(rows): the message, or the rows of the table body in order
RenderTable(pg, rs) ==
    IF rs = <<>> THEN Shown("no-match", <<>>)
    ELSE IF pg = "internal"
         THEN LET sorted == SortByDateDesc(rs)
              IN  Shown("rows", SubSeq(sorted, 1,
                            IF Len(sorted) < TableCap THEN Len(sorted) ELSE TableCap))
         ELSE Shown("rows", SortByDateDesc(rs))

\* Faulty variant of TableArgumentAfter: renderTable sorts the array it is
\* given, not a copy.
TableArgumentSorted(pg, rs) == SortByDateDesc(rs)

\* the array handed to renderTable(rows), after the call: the sort works on
\* the copy [...rows]
TableArgumentAfter(pg, rs) == rs

\* getFilteredRows() returns state.rows itself and not a filtered copy: no
\* scope predicate, month "all", event type "all"
ReturnsStateRows(f) ==
    /\ f.scope \notin ScopeKeys \/ ~HasPredicate(f.scope)
    /\ f.month = ALL
    /\ f.eventType = ALL

\* state.rows after renderTable(getFilteredRows())
RowsAfterTable(pg, rs, f) ==
    IF ReturnsStateRows(f) THEN TableArgumentAfter(pg, rs) ELSE rs

----------------------------------------------------------------------------
(* Select options and the query string                                     *)

\* the distinct event types offered: truthy and not blank
EventTypesOf(rs) ==
    { rs[i]["event_type"] : i \in { j \in 1..Len(rs) :
          Truthy(rs[j], "event_type") /\ Trim(rs[j]["event_type"]) # <<>> } }

\* updateEventFilterOptions(rows): the option values written to the select
EventOptionsOf(rs) == <<ALL>> \o SortAsc(EventTypesOf(rs))

\* Faulty variant of UpdateEventFilterOptions: the options are rewritten but
\* the selected event type is kept whether it is still offered or not.
UpdateEventFilterOptionsKeep(rs, f) == f

\* updateEventFilterOptions(rows): state.filters afterwards
UpdateEventFilterOptions(rs, f) ==
    IF f.eventType # ALL /\ f.eventType \notin EventTypesOf(rs)
    THEN [f EXCEPT !.eventType = ALL] ELSE f

\* updateMonthOptions(rows): the option values written to the select
MonthOptionsOf(rs) == <<ALL>> \o SortDesc(MonthsOf(rs))

\* Faulty variant of UpdateMonthOptions: the options are rewritten but the
\* month taken from the query string is kept whether it is offered or not.
UpdateMonthOptionsKeep(rs, f) == f

\* updateMonthOptions(rows): state.filters afterwards
UpdateMonthOptions(rs, f) ==
    IF f.month # ALL /\ f.month \notin MonthsOf(rs)
    THEN [f EXCEPT !.month = ALL] ELSE f

\* names that VIEW_SCOPES inherits from Object.prototype: VIEW_SCOPES[name]
\* is truthy for them although they are no scopes
InheritedKeys == {"constructor", "toString"}

\* VIEW_SCOPES[scope] is truthy
ScopeLookup(scope) == scope \in ScopeKeys \cup InheritedKeys

\* getInitialScope(): u is the query string, parameter name -> value
GetInitialScope(u) ==
    IF "view" \in DOMAIN u /\ u["view"] # "" /\ ScopeLookup(u["view"])
    THEN u["view"] ELSE "all"

\* /^\d{4}-\d{2}$/.test(month)
IsMonthShaped(m) ==
    /\ Len(m) = 7
    /\ AllDigits(SubSeq(m, 1, 4)) /\ m[5] = "-" /\ AllDigits(SubSeq(m, 6, 7))

\* getInitialMonth()
GetInitialMonth(u) ==
    IF "month" \in DOMAIN u /\ u["month"] # <<>> /\ IsMonthShaped(u["month"])
    THEN u["month"] ELSE ALL

\* syncFiltersToQuery(): the query string after replaceState
SyncFiltersToQuery(f) ==
    [p \in (IF f.scope = "all" THEN {} ELSE {"view"})
           \cup (IF f.month = ALL THEN {} ELSE {"month"}) |->
        IF p = "view" THEN f.scope ELSE f.month]

----------------------------------------------------------------------------
(* Rendering                                                               *)

RenderChart(pg, rs, metric, interval, f, oldCaption) ==
    IF pg = "internal" THEN RenderChartInternal(rs, metric, interval, f)
    ELSE RenderChartPublic(rs, oldCaption)

\* Faulty variant of RefreshDashboard: the table is rendered from the scope-and-month
\* rows as well.
RefreshDashboardTableUnfiltered(pg, rs, f, metric, interval, oldCaption) ==
    LET scopedRows == GetScopeAndMonthRows(rs, f)
        drawn      == RenderChart(pg, scopedRows, metric, interval, f, oldCaption)
    IN  [summary |-> UpdateSummary(pg, scopedRows),
         chart   |-> drawn.chart,
         caption |-> drawn.caption,
         table   |-> RenderTable(pg, scopedRows)]

\* refreshDashboard(): summary and chart from the scope-and-month rows, the
\* table from getFilteredRows()
RefreshDashboard(pg, rs, f, metric, interval, oldCaption) ==
    LET scopedRows == GetScopeAndMonthRows(rs, f)
        drawn      == RenderChart(pg, scopedRows, metric, interval, f, oldCaption)
    IN  [summary |-> UpdateSummary(pg, scopedRows),
         chart   |-> drawn.chart,
         caption |-> drawn.caption,
         table   |-> RenderTable(pg, GetFilteredRows(rs, f))]

\* renderEmptyState()
RenderEmptyState(pg, oldCaption) ==
    [summary |-> EmptySummary(pg),
     chart   |-> NoChart,
     caption |-> IF pg = "internal" THEN Caption("month", <<>>) ELSE oldCaption,
     table   |-> Shown("no-data", <<>>)]

----------------------------------------------------------------------------
(* Input: the CSV files                                                    *)

\* header of data/shifts.csv
InternalColumns ==
    {"date", "venue", "event_type", "performed_by", "scheduled_end_time",
     "actual_end_time", "base_pay", "ot_minutes", "ot_pay", "worker_payment",
     "total_pay", "net_income"}

\* header of data/shifts_public.csv
PublicColumns ==
    {"date", "event_type", "actual_end_time", "ot_minutes", "ot_pay",
     "total_pay"}

\* a self-performed open mic shift in 2024-01
RowOpenMic ==
    [ date               |-> <<"2", "0", "2", "4", "-", "0", "1", "-", "0", "5">>,
       venue              |-> <<"A">>,
       event_type         |-> <<"O", "p", "e", "n", " ", "M", "i", "c">>,
       performed_by       |-> <<"T", "U+1EF1">>,
       scheduled_end_time |-> <<>>,
       actual_end_time    |-> <<>>,
       base_pay           |-> <<"2", "0", "0", "0", "0", "0">>,
       ot_minutes         |-> <<"1", "0">>,
       ot_pay             |-> <<"5", "0", "0", "0", "0">>,
       worker_payment     |-> <<"0">>,
       total_pay          |-> <<"2", "5", "0", "0", "0", "0">>,
       net_income         |-> <<"2", "5", "0", "0", "0", "0">> ]

\* an outsourced live show in 2024-02; net_income left empty
RowLiveShow ==
    [ date               |-> <<"2", "0", "2", "4", "-", "0", "2", "-", "2", "0">>,
       venue              |-> <<"A">>,
       event_type         |-> <<"U+0110", "U+00EA", "m", " ", "n", "h", "U+1EA1", "c">>,
       performed_by       |-> <<"N", "a", "m">>,
       scheduled_end_time |-> <<>>,
       actual_end_time    |-> <<>>,
       base_pay           |-> <<"3", "0", "0", "0", "0", "0">>,
       ot_minutes         |-> <<"1", "6">>,
       ot_pay             |-> <<"1", "0", "0", "0", "0", "0">>,
       worker_payment     |-> <<"1", "0", "0", "0", "0", "0">>,
       total_pay          |-> <<"4", "0", "0", "0", "0", "0">>,
       net_income         |-> <<>> ]

\* a workshop in 2024-01 with half units and an unparseable ot_minutes
RowWorkshop ==
    [ date               |-> <<"2", "0", "2", "4", "-", "0", "1", "-", "2", "0">>,
       venue              |-> <<"A">>,
       event_type         |-> <<"W", "o", "r", "k", "s", "h", "o", "p">>,
       performed_by       |-> <<"T", "U+1EF1">>,
       scheduled_end_time |-> <<>>,
       actual_end_time    |-> <<>>,
       base_pay           |-> <<"1", "5", "0", "0", "0", "0", ".", "5">>,
       ot_minutes         |-> <<"a", "b", "c">>,
       ot_pay             |-> <<>>,
       worker_payment     |-> <<"0">>,
       total_pay          |-> <<"1", "5", "0", "0", "0", "0", ".", "5">>,
       net_income         |-> <<"1", "5", "0", "0", "0", "0", ".", "5">> ]

\* the blank line at the end of a hand-edited file
RowBlank ==
    [ date               |-> <<>>,
       venue              |-> <<>>,
       event_type         |-> <<>>,
       performed_by       |-> <<>>,
       scheduled_end_time |-> <<>>,
       actual_end_time    |-> <<>>,
       base_pay           |-> <<>>,
       ot_minutes         |-> <<>>,
       ot_pay             |-> <<>>,
       worker_payment     |-> <<>>,
       total_pay          |-> <<>>,
       net_income         |-> <<>> ]

SampleRows == {RowOpenMic, RowLiveShow, RowWorkshop, RowBlank}

\* the longest file of the session specification, in rows
MaxRows == 2

RECURSIVE SeqsUpTo(_, _)
SeqsUpTo(S, n) ==
    IF n = 0 THEN {<<>>}
    ELSE LET shorter == SeqsUpTo(S, n - 1)
         IN  shorter \cup { Append(q, x) : q \in shorter, x \in S }

\* a row of the public file: the public columns of a row of the internal file
PublicRow(row) == [c \in PublicColumns |-> row[c]]

\* what Papa.parse(text, {header: true}).data holds
Files(pg) ==
    IF pg = "internal" THEN SeqsUpTo(SampleRows, MaxRows)
    ELSE SeqsUpTo({PublicRow(r) : r \in SampleRows}, MaxRows)

\* the query strings a session starts with
Month202401 == <<"2", "0", "2", "4", "-", "0", "1">>
Month202312 == <<"2", "0", "2", "3", "-", "1", "2">>
NotAMonth == <<"j", "a", "n">>

Urls ==
    { [p \in {} |-> ""],
      [p \in {"view"} |-> "open_mic"],
      [p \in {"view"} |-> "all"],
      [p \in {"view"} |-> "constructor"],
      [p \in {"view", "month"} |-> IF p = "view" THEN "bogus" ELSE NotAMonth],
      [p \in {"month"} |-> Month202401],
      [p \in {"view", "month"} |-> IF p = "view" THEN "live_show" ELSE Month202312] }

----------------------------------------------------------------------------
(* The dashboard session                                                   *)

Pages == {"internal", "public"}

\* the data-scope values of the scope buttons
ScopeButtons == {"all", "open_mic", "live_show", "bogus"}

\* the option values of #chart-mode and #chart-interval
ChartModes == {"total_pay", "net_income", "ot_pay"}
ChartIntervals == {"month", "day"}

\* nothing rendered yet
Unrendered == [id \in {} |-> 0]

\* no Chart constructed yet and state.chart is null. ref tells what
\* state.chart holds ("null", a "live" Chart or a "destroyed" one), live
\* counts the Charts constructed and not destroyed, twice tells that destroy()
\* was called on a Chart that was destroyed before.
NoInstances == [ref |-> "null", live |-> 0, twice |-> FALSE]

\* state.chart.destroy()
Destroy(inst) ==
    IF inst.ref = "live"
    THEN [inst EXCEPT !.ref = "destroyed", !.live = @ - 1]
    ELSE [inst EXCEPT !.twice = TRUE]

\* if (state.chart) { state.chart.destroy(); }
DestroyIfSet(inst) == IF inst.ref = "null" THEN inst ELSE Destroy(inst)

\* destroyChart(), and the last statement of the public renderEmptyState()
DestroyChart(inst) == [DestroyIfSet(inst) EXCEPT !.ref = "null"]

\* drawChart(config), and the last statements of the public renderChart():
\* present tells whether getElementById found the canvas
DrawChart(inst, present) ==
    LET cleared == DestroyIfSet(inst)
    IN  IF present THEN [cleared EXCEPT !.ref = "live", !.live = @ + 1]
        ELSE cleared

\* no pure-function step taken yet
NoOut == [done |-> FALSE, rows |-> <<>>]

\* The script has run up to the await in init(): state is constructed from
\* the query string, the handlers are registered, the fetch is in flight.
Init ==
    /\ page \in Pages
    /\ url \in Urls
    /\ \E ok \in BOOLEAN : \E data \in Files(page) :
           csv = [ok |-> ok, data |-> IF ok THEN data ELSE <<>>]
    /\ phase = "loading"
    /\ rows = <<>>
    /\ filters = [eventType |-> ALL,
                  scope     |-> GetInitialScope(url),
                  month     |-> GetInitialMonth(url)]
    /\ chartInterval = "month"
    /\ chartMode = "total_pay"
    /\ monthOptions = <<ALL>>
    /\ eventOptions = <<ALL>>
    /\ summary = Unrendered
    /\ chart = NoChart
    /\ canvas = TRUE
    /\ instances = NoInstances
    /\ caption = Caption("month", <<>>)
    /\ table = Shown("none", <<>>)
    /\ out = NoOut

\* renderChart(rows) went on to build a chart: the internal dashboard calls
\* drawChart(config), the public one runs the tail of its renderChart
Draws(view) == view.chart # NoChart

\* document.getElementById("otChart").getContext("2d") of the public
\* dashboard throws a TypeError when the canvas is not in the document
Throws(view) == page = "public" /\ Draws(view) /\ ~canvas

\* The outcome of a rendering: summary, caption, chart and table as the view
\* gives them. Without the canvas state.chart is left as it was; an exception
\* thrown by renderChart leaves the table to its caller (thrown).
Show(thrown, view) ==
    /\ summary' = view.summary
    /\ chart' = IF Draws(view) /\ ~canvas THEN chart ELSE view.chart
    /\ instances' = IF Draws(view) THEN DrawChart(instances, canvas)
                    ELSE DestroyChart(instances)
    /\ caption' = view.caption
    /\ table' = IF Throws(view) THEN thrown ELSE view.table

\* init() after `await loadCsv(...)` returned rows
LoadDone ==
    /\ phase = "loading"
    /\ csv.ok
    /\ LET rs == LoadCsv(page, csv.data)
       IN  /\ IF rs = <<>>
              THEN /\ rows' = rs
                   /\ monthOptions' = MonthOptionsOf(<<>>)
                   /\ eventOptions' = EventOptionsOf(<<>>)
                   /\ filters' = UpdateEventFilterOptions(<<>>,
                                     UpdateMonthOptions(<<>>, filters))
                   /\ phase' = "loaded"
                   /\ Show(table, RenderEmptyState(page, caption))
              ELSE LET f1 == UpdateMonthOptions(rs, filters)
                       scoped == GetScopeAndMonthRows(rs, f1)
                       f2 == UpdateEventFilterOptions(scoped, f1)
                   IN  /\ rows' = RowsAfterTable(page, rs, f2)
                       /\ monthOptions' = MonthOptionsOf(rs)
                       /\ eventOptions' = EventOptionsOf(scoped)
                       /\ filters' = f2
                       /\ LET view == RefreshDashboard(page, rs, f2, chartMode,
                                                       chartInterval, caption)
                          IN  /\ phase' = IF Throws(view) THEN "failed"
                                          ELSE "loaded"
                              /\ Show(Shown("load-error", <<>>), view)
    /\ UNCHANGED <<page, url, csv, chartInterval, chartMode, canvas, out>>

\* init(): loadCsv threw, the catch block writes the error row
LoadFail ==
    /\ phase = "loading"
    /\ ~csv.ok
    /\ phase' = "failed"
    /\ table' = Shown("load-error", <<>>)
    /\ UNCHANGED <<page, url, csv, rows, filters, chartInterval, chartMode,
                   monthOptions, eventOptions, summary, chart, caption,
                   canvas, instances, out>>

\* the option values a select offers
Elements(seq) == { seq[i] : i \in 1..Len(seq) }

\* click on a scope button: applyScope(button.dataset.scope)
ScopeClick(scope) ==
    IF ~ScopeLookup(scope) \/ filters.scope = scope
    THEN UNCHANGED vars
    ELSE LET f1 == [filters EXCEPT !.scope = scope, !.eventType = ALL]
         IN  /\ url' = SyncFiltersToQuery(f1)
             /\ IF rows = <<>>
                THEN /\ filters' = f1
                     /\ UNCHANGED <<eventOptions, summary, chart, caption, table,
                                 instances>>
                ELSE LET scoped == GetScopeAndMonthRows(rows, f1)
                         f2 == UpdateEventFilterOptions(scoped, f1)
                     IN  /\ eventOptions' = EventOptionsOf(scoped)
                         /\ filters' = f2
                         /\ Show(table, RefreshDashboard(page, rows, f2, chartMode,
                                chartInterval, caption))
             /\ rows' = RowsAfterTable(page, rows, filters')
             /\ UNCHANGED <<page, csv, phase, chartInterval, chartMode, canvas,
                            monthOptions, out>>

\* Faulty variant of MonthChange: the dashboard is refreshed from the filter
\* state as it was before the change.
MonthChangeStaleRefresh(month) ==
    /\ month \in Elements(monthOptions)
    /\ url' = SyncFiltersToQuery([filters EXCEPT !.month = month])
    /\ LET f1 == [filters EXCEPT !.month = month]
       IN  IF rows = <<>>
           THEN /\ filters' = f1
                /\ UNCHANGED <<eventOptions, summary, chart, caption, table,
                                 instances>>
           ELSE LET scoped == GetScopeAndMonthRows(rows, f1)
                    f2 == UpdateEventFilterOptions(scoped, f1)
                IN  /\ eventOptions' = EventOptionsOf(scoped)
                    /\ filters' = f2
                    /\ Show(table, RefreshDashboard(page, rows, filters, chartMode,
                                chartInterval, caption))
    /\ rows' = RowsAfterTable(page, rows, filters')
    /\ UNCHANGED <<page, csv, phase, chartInterval, chartMode, canvas,
                   monthOptions, out>>

\* change event of the month select
MonthChange(month) ==
    /\ month \in Elements(monthOptions)
    /\ url' = SyncFiltersToQuery([filters EXCEPT !.month = month])
    /\ LET f1 == [filters EXCEPT !.month = month]
       IN  IF rows = <<>>
           THEN /\ filters' = f1
                /\ UNCHANGED <<eventOptions, summary, chart, caption, table,
                                 instances>>
           ELSE LET scoped == GetScopeAndMonthRows(rows, f1)
                    f2 == UpdateEventFilterOptions(scoped, f1)
                IN  /\ eventOptions' = EventOptionsOf(scoped)
                    /\ filters' = f2
                    /\ Show(table, RefreshDashboard(page, rows, f2, chartMode,
                                chartInterval, caption))
    /\ rows' = RowsAfterTable(page, rows, filters')
    /\ UNCHANGED <<page, csv, phase, chartInterval, chartMode, canvas,
                   monthOptions, out>>

\* change event of the event-type select
EventChange(eventType) ==
    /\ eventType \in Elements(eventOptions)
    /\ filters' = [filters EXCEPT !.eventType = eventType]
    /\ table' = RenderTable(page, GetFilteredRows(rows,
                     [filters EXCEPT !.eventType = eventType]))
    /\ rows' = RowsAfterTable(page, rows, filters')
    /\ UNCHANGED <<page, url, csv, phase, chartInterval, chartMode,
                   monthOptions, eventOptions, summary, chart, caption,
                   canvas, instances, out>>

\* renderChart(getScopeAndMonthRows()) called by a chart control
Redraw(drawn) ==
    /\ chart' = IF Draws(drawn) /\ ~canvas THEN chart ELSE drawn.chart
    /\ instances' = IF Draws(drawn) THEN DrawChart(instances, canvas)
                    ELSE DestroyChart(instances)
    /\ caption' = drawn.caption

\* change event of #chart-mode (internal dashboard)
ChartModeChange(metric) ==
    /\ page = "internal"
    /\ chartMode' = metric
    /\ IF rows = <<>>
       THEN UNCHANGED <<chart, caption, instances>>
       ELSE LET drawn == RenderChartInternal(GetScopeAndMonthRows(rows, filters),
                                             metric, chartInterval, filters)
            IN  Redraw(drawn)
    /\ UNCHANGED <<page, url, csv, phase, rows, filters, chartInterval,
                   monthOptions, eventOptions, summary, table, canvas, out>>

\* change event of #chart-interval (internal dashboard)
ChartIntervalChange(interval) ==
    /\ page = "internal"
    /\ chartInterval' = interval
    /\ IF rows = <<>>
       THEN /\ caption' = Caption(IF interval = "day" THEN "day-plain" ELSE "month",
                                  <<>>)
            /\ UNCHANGED <<chart, instances>>
       ELSE LET drawn == RenderChartInternal(GetScopeAndMonthRows(rows, filters),
                                             chartMode, interval, filters)
            IN  Redraw(drawn)
    /\ UNCHANGED <<page, url, csv, phase, rows, filters, chartMode,
                   monthOptions, eventOptions, summary, table, canvas, out>>

Next ==
    \/ LoadDone
    \/ LoadFail
    \/ \E scope \in ScopeButtons : ScopeClick(scope)
    \/ \E month \in Elements(monthOptions) : MonthChange(month)
    \/ \E eventType \in Elements(eventOptions) : EventChange(eventType)
    \/ \E metric \in ChartModes : ChartModeChange(metric)
    \/ \E interval \in ChartIntervals : ChartIntervalChange(interval)

Spec == Init /\ [][Next]_vars

----------------------------------------------------------------------------
(* The pipeline from one file to the first rendering: the session with an  *)
(* empty query string and a wider choice of files, followed up to the      *)
(* chart-mode changes.                                                     *)

RawDates == { <<>>,
      <<"2", "0", "2", "4", "-", "0", "1", "-", "0", "5">> }

RawBasePay == { <<>>,
      <<"2", "0", "0", "0", "0", "0">>,
      <<"a", "b", "c">> }

RawOtMinutes == { <<>>,
      <<"0">>,
      <<"1">>,
      <<"1", "5">>,
      <<"1", "6">>,
      <<"a", "b", "c">> }

RawOtPay == { <<>>,
      <<"5", "0", "0", "0", "0">>,
      <<"1", "0", "0", "0", "0", "0">> }

RawTotalPay == { <<>>,
      <<"2", "5", "0", "0", "0", "0">>,
      <<"0", ".", "5">> }

RawWorkerPayment == { <<>>,
      <<"1", "0", "0", "0", "0", "0">> }

RawNetIncome == { <<>>,
      <<"0">>,
      <<"a", "b", "c">> }

\* one line of the file under the full header
RawRow(date, basePay, otMinutes, otPay, totalPay, workerPayment, netIncome) ==
    [c \in InternalColumns |->
        CASE c = "date"           -> date
          [] c = "base_pay"       -> basePay
          [] c = "ot_minutes"     -> otMinutes
          [] c = "ot_pay"         -> otPay
          [] c = "total_pay"      -> totalPay
          [] c = "worker_payment" -> workerPayment
          [] c = "net_income"     -> netIncome
          [] c = "event_type"     -> <<"O", "p", "e", "n", " ", "M", "i", "c">>
          [] c = "performed_by"   -> SelfMarker
          [] OTHER                -> <<>>]

RichRows ==
    { RawRow(d, b, m, p, t, w, n) :
        d \in RawDates, b \in RawBasePay, m \in RawOtMinutes, p \in RawOtPay,
        t \in RawTotalPay, w \in RawWorkerPayment, n \in RawNetIncome }

\* two shifts of one month whose amounts are half units
RowHalfA ==
    [ date               |-> <<"2", "0", "2", "4", "-", "0", "1", "-", "0", "7">>,
       venue              |-> <<"B">>,
       event_type         |-> <<"O", "p", "e", "n", " ", "M", "i", "c">>,
       performed_by       |-> <<"N", "a", "m">>,
       scheduled_end_time |-> <<>>,
       actual_end_time    |-> <<>>,
       base_pay           |-> <<"0", ".", "5">>,
       ot_minutes         |-> <<"0">>,
       ot_pay             |-> <<"0", ".", "5">>,
       worker_payment     |-> <<"0", ".", "5">>,
       total_pay          |-> <<"0", ".", "5">>,
       net_income         |-> <<"0", ".", "5">> ]

\* the second of them, with a partly unparseable line
RowHalfB ==
    [ date               |-> <<"2", "0", "2", "4", "-", "0", "1", "-", "0", "9">>,
       venue              |-> <<"B">>,
       event_type         |-> <<"o", "p", "e", "n", "m", "i", "c">>,
       performed_by       |-> <<"T", "U+1EF1", " ", "+", " ", "N", "a", "m">>,
       scheduled_end_time |-> <<>>,
       actual_end_time    |-> <<>>,
       base_pay           |-> <<"1", ".", "5">>,
       ot_minutes         |-> <<"1", "5">>,
       ot_pay             |-> <<"0", ".", "5">>,
       worker_payment     |-> <<"a", "b", "c">>,
       total_pay          |-> <<"0", ".", "5">>,
       net_income         |-> <<"0", ".", "5">> ]

\* the two rows of the end-to-end scenario: no ot_pay, no total_pay
RowScenarioA ==
    [ date               |-> <<"2", "0", "2", "4", "-", "0", "1", "-", "0", "5">>,
       venue              |-> <<>>,
       event_type         |-> <<>>,
       performed_by       |-> <<>>,
       scheduled_end_time |-> <<>>,
       actual_end_time    |-> <<>>,
       base_pay           |-> <<"2", "0", "0", "0", "0", "0">>,
       ot_minutes         |-> <<"1", "0">>,
       ot_pay             |-> <<>>,
       worker_payment     |-> <<"0">>,
       total_pay          |-> <<>>,
       net_income         |-> <<>> ]

\* the second row of the scenario
RowScenarioB ==
    [ date               |-> <<"2", "0", "2", "4", "-", "0", "1", "-", "2", "0">>,
       venue              |-> <<>>,
       event_type         |-> <<>>,
       performed_by       |-> <<>>,
       scheduled_end_time |-> <<>>,
       actual_end_time    |-> <<>>,
       base_pay           |-> <<"3", "0", "0", "0", "0", "0">>,
       ot_minutes         |-> <<"1", "6">>,
       ot_pay             |-> <<>>,
       worker_payment     |-> <<"0">>,
       total_pay          |-> <<>>,
       net_income         |-> <<>> ]

PipelineRows == SampleRows \cup {RowHalfA, RowHalfB, RowScenarioA, RowScenarioB}

\* the longest file of the pipeline specification, in rows
MaxPipelineRows == 3

\* the headers a file may have: all twelve columns, or the public six
Restrict(row, columns) == [c \in columns |-> row[c]]

\* a file whose header has no date column
NoDateFile == << Restrict(RowOpenMic, InternalColumns \ {"date"}) >>

PipelineFiles ==
    LET full == { <<r>> : r \in RichRows }
                \cup SeqsUpTo(PipelineRows, MaxPipelineRows)
    IN  full \cup { [i \in 1..Len(file) |-> Restrict(file[i], PublicColumns)] :
                    file \in full }
             \cup {NoDateFile}

InitPipeline ==
    /\ page \in Pages
    /\ url = [p \in {} |-> ""]
    /\ \E ok \in BOOLEAN : \E data \in PipelineFiles :
           csv = [ok |-> ok, data |-> IF ok THEN data ELSE <<>>]
    /\ phase = "loading"
    /\ rows = <<>>
    /\ filters = [eventType |-> ALL,
                  scope     |-> GetInitialScope(url),
                  month     |-> GetInitialMonth(url)]
    /\ chartInterval = "month"
    /\ chartMode = "total_pay"
    /\ monthOptions = <<ALL>>
    /\ eventOptions = <<ALL>>
    /\ summary = Unrendered
    /\ chart = NoChart
    /\ canvas = TRUE
    /\ instances = NoInstances
    /\ caption = Caption("month", <<>>)
    /\ table = Shown("none", <<>>)
    /\ out = NoOut

NextPipeline ==
    \/ LoadDone
    \/ LoadFail
    \/ \E metric \in ChartModes : phase = "loaded" /\ ChartModeChange(metric)

SpecPipeline == InitPipeline /\ [][NextPipeline]_vars

----------------------------------------------------------------------------
(* The filter pipeline as a function: any loaded record set, any filter    *)
(* state, one application of getFilteredRows().                            *)

\* an open mic shift in 2024-02, spelled as one lower-case word
RowOpenMicFeb ==
    [ date               |-> <<"2", "0", "2", "4", "-", "0", "2", "-", "0", "3">>,
       venue              |-> <<"C">>,
       event_type         |-> <<"o", "p", "e", "n", "m", "i", "c">>,
       performed_by       |-> <<"N", "a", "m">>,
       scheduled_end_time |-> <<>>,
       actual_end_time    |-> <<>>,
       base_pay           |-> <<"2", "0", "0", "0", "0", "0">>,
       ot_minutes         |-> <<"0">>,
       ot_pay             |-> <<"0">>,
       worker_payment     |-> <<"1", "0", "0", "0", "0", "0">>,
       total_pay          |-> <<"2", "0", "0", "0", "0", "0">>,
       net_income         |-> <<"1", "0", "0", "0", "0", "0">> ]

FilterRows == SampleRows \cup {RowOpenMicFeb}

\* the longest record set of the filter specification, in raw rows
MaxFilterRows == 3

FilterStates ==
    [ eventType : {ALL, RowOpenMic["event_type"], RowWorkshop["event_type"]},
      scope     : ScopeKeys \cup {"constructor"},
      month     : {ALL, Month202401, MonthOf(RowLiveShow), Month202312} ]

InitFilter ==
    /\ page = "internal"
    /\ url = [p \in {} |-> ""]
    /\ \E data \in SeqsUpTo(FilterRows, MaxFilterRows) :
           /\ csv = [ok |-> TRUE, data |-> data]
           /\ rows = LoadCsv(page, data)
    /\ phase = "loaded"
    /\ filters \in FilterStates
    /\ chartInterval = "month"
    /\ chartMode = "total_pay"
    /\ monthOptions = <<ALL>>
    /\ eventOptions = <<ALL>>
    /\ summary = Unrendered
    /\ chart = NoChart
    /\ canvas = TRUE
    /\ instances = NoInstances
    /\ caption = Caption("month", <<>>)
    /\ table = Shown("none", <<>>)
    /\ out = NoOut

\* out.rows becomes getFilteredRows()
FilterStep ==
    /\ ~out.done
    /\ out' = [done |-> TRUE, rows |-> GetFilteredRows(rows, filters)]
    /\ UNCHANGED <<page, url, csv, phase, rows, filters, chartInterval,
                   chartMode, monthOptions, eventOptions, summary, chart,
                   caption, table, canvas, instances>>

NextFilter == FilterStep

SpecFilter == InitFilter /\ [][NextFilter]_vars

----------------------------------------------------------------------------
(* Properties                                                              *)

\* JavaScript ==  on numbers: NaN equals nothing
NumEq(a, b) == ~IsNaN(a) /\ ~IsNaN(b) /\ a = b

\* the raw row the k-th ingested record comes from: the k-th row of the file
\* that has a non-empty date
DatedIndices == { i \in 1..Len(csv.data) : Truthy(csv.data[i], "date") }

SourceIndex(k) ==
    CHOOSE i \in DatedIndices : Cardinality({ j \in DatedIndices : j <= i }) = k

\* the numeric fields each loader sets from a raw column
LoaderNumeric(pg) ==
    IF pg = "internal"
    THEN {"base_pay", "ot_minutes", "ot_pay", "total_pay", "worker_payment"}
    ELSE PublicNumeric

\* C2 (as stated): every record loadCsv produces satisfies
\* total_pay == base_pay + ot_pay and net_income + worker_payment == total_pay,
\* whatever the raw row carries in these columns.
C2_PayIdentities ==
    (phase = "loaded" /\ page = "internal") =>
        \A i \in 1..Len(rows) :
            /\ NumEq(rows[i]["total_pay"],
                     Add(rows[i]["base_pay"], rows[i]["ot_pay"]))
            /\ NumEq(Add(rows[i]["net_income"], rows[i]["worker_payment"]),
                     rows[i]["total_pay"])

\* the billing rule of the README: blocks of 15 minutes, 50.000 per block
BlockMinutes == 15
BlockRate == 50000

\* ceil(m / 15) * 50000 for m whole minutes, in tenths like every number
BlockPay(minutes) ==
    ((minutes \div Scale + BlockMinutes - 1) \div BlockMinutes) * BlockRate * Scale

IsWholeNonNegative(x) == ~IsNaN(x) /\ x >= 0 /\ x % Scale = 0

ScenarioFile == <<RowScenarioA, RowScenarioB>>

\* C3 (as stated): the ot_pay of an ingested record with m whole overtime
\* minutes is ceil(m / 15) * 50000, and the two rows of the end-to-end
\* scenario (10 and 16 minutes, base pay 200000 and 300000, no ot_pay and no
\* total_pay) give ot_pay 50000 and 100000, the one monthly bucket
\* 2024-01 = 650000 and the summary count 2, total pay 650000, 26 minutes.
C3_OtPayByBlocks ==
    (phase = "loaded" /\ page = "internal") =>
        /\ \A i \in 1..Len(rows) :
               IsWholeNonNegative(rows[i]["ot_minutes"]) =>
                   NumEq(rows[i]["ot_pay"], BlockPay(rows[i]["ot_minutes"]))
        /\ (csv.data = ScenarioFile /\ chartMode = "total_pay") =>
               /\ rows[1]["ot_pay"] = 50000 * Scale
               /\ rows[2]["ot_pay"] = 100000 * Scale
               /\ chart.labels = <<Month202401>>
               /\ chart.data = <<650000 * Scale>>
               /\ summary["total-shifts"] = 2
               /\ summary["total-pay"] = 650000 * Scale
               /\ summary["total-ot"] = 26 * Scale

\* C6 (as stated): loadCsv does not fail, and every numeric field of an
\* ingested record is a number, never NaN: 0 when the raw column is absent,
\* empty or does not parse as a number.
C6_NumericFieldsAreNumbers ==
    phase = "loaded" =>
        \A k \in 1..Len(rows) : \A col \in LoaderNumeric(page) :
            LET raw == csv.data[SourceIndex(k)]
            IN  /\ Has(rows[k], col)
                /\ ~IsNaN(rows[k][col])
                /\ (~Truthy(raw, col) \/ IsNaN(Number(raw[col])))
                       => rows[k][col] = 0

\* C7: loadCsv returns one record per raw row whose date is present and not
\* empty, in the order of the raw rows; rows without a date are dropped and
\* nothing fails.
C7_DatedRowsInOrder ==
    phase = "loaded" =>
        /\ Len(rows) = Cardinality(DatedIndices)
        /\ \A k \in 1..Len(rows) :
               LET raw == csv.data[SourceIndex(k)]
               IN  /\ rows[k] = IngestRow(page, raw)
                   /\ rows[k]["date"] = raw["date"]
                   /\ \A c \in DOMAIN raw \ InternalNumeric : rows[k][c] = raw[c]

\* a file with a blank line between two dated lines has been loaded
C7_Witness ==
    /\ phase = "loaded"
    /\ Len(csv.data) = 3
    /\ Truthy(csv.data[1], "date")
    /\ ~Truthy(csv.data[2], "date")
    /\ Truthy(csv.data[3], "date")
    /\ csv.data[1]["date"] # csv.data[3]["date"]
    /\ Len(rows) = 2

\* the three tests of the filter pipeline, each on one record
PassesScope(row, f) == ~HasPredicate(f.scope) \/ ScopePredicate(f.scope, row)
PassesMonth(row, f) == f.month = ALL \/ Slice0(row["date"], 7) = f.month
PassesEvent(row, f) ==
    f.eventType = ALL \/ (Has(row, "event_type") /\ row["event_type"] = f.eventType)

\* C4: getFilteredRows() returns exactly the loaded records that pass the
\* scope, month and event-type tests, in ingestion order; the three steps
\* give the same result in each of their six orders, and filtering the
\* result again with the same filter state changes nothing.
C4_FilterIsConjunction ==
    out.done =>
        /\ out.rows = SelectSeq(rows, LAMBDA row : /\ PassesScope(row, filters)
                                                   /\ PassesMonth(row, filters)
                                                   /\ PassesEvent(row, filters))
        /\ out.rows = ApplyEventFilter(GetScopedRows(
                          ApplyMonthFilter(rows, filters), filters), filters)
        /\ out.rows = ApplyMonthFilter(ApplyEventFilter(
                          GetScopedRows(rows, filters), filters), filters)
        /\ out.rows = GetScopedRows(ApplyEventFilter(
                          ApplyMonthFilter(rows, filters), filters), filters)
        /\ out.rows = ApplyMonthFilter(GetScopedRows(
                          ApplyEventFilter(rows, filters), filters), filters)
        /\ out.rows = GetScopedRows(ApplyMonthFilter(
                          ApplyEventFilter(rows, filters), filters), filters)
        /\ GetFilteredRows(out.rows, filters) = out.rows

\* three records, all three filters set, and each test rejects a record that
\* the two others accept or the result would be larger
C4_Witness ==
    /\ out.done
    /\ Len(rows) = 3
    /\ filters.scope = "open_mic"
    /\ filters.month # ALL
    /\ filters.eventType # ALL
    /\ Len(out.rows) = 1
    /\ Len(GetScopedRows(rows, filters)) = 2
    /\ Len(ApplyMonthFilter(rows, filters)) = 2

\* the amount a record contributes to a sum: the field, or 0 when the field
\* is missing or not a number
Amount(row, col) ==
    IF Has(row, col) /\ ~IsNaN(row[col]) THEN row[col] ELSE 0

\* the sum of a field over the records at the positions I of rs
RECURSIVE TotalAt(_, _, _)
TotalAt(rs, I, col) ==
    IF I = {} THEN 0
    ELSE LET i == CHOOSE j \in I : TRUE
         IN  Amount(rs[i], col) + TotalAt(rs, I \ {i}, col)

Total(rs, col) == TotalAt(rs, 1..Len(rs), col)

IsSelfPerformed(row) ==
    Has(row, "performed_by") /\ Includes(row["performed_by"], SelfMarker)

\* C8: for a non-empty record set updateSummary() shows the number of
\* records, the sums of total_pay, net_income, worker_payment (in whole
\* currency units) and ot_minutes, the number of self-performed records and
\* the rest as outsourced, and the greatest date of the set.  A field that is
\* not a number adds nothing to a sum.
C8_SummaryOfRecords ==
    (phase = "loaded" /\ page = "internal" /\ rows # <<>>) =>
        LET self == Cardinality({ i \in 1..Len(rows) : IsSelfPerformed(rows[i]) })
        IN  /\ summary["total-shifts"] = Len(rows)
            /\ summary["total-pay"] = CurrencyFormat(Total(rows, "total_pay"))
            /\ summary["net-income"] = CurrencyFormat(Total(rows, "net_income"))
            /\ summary["total-worker-pay"] =
                   CurrencyFormat(Total(rows, "worker_payment"))
            /\ summary["total-ot"] = Total(rows, "ot_minutes")
            /\ summary["self"] = self
            /\ summary["outsourced"] = Len(rows) - self
            /\ summary["self"] + summary["outsourced"] = summary["total-shifts"]
            /\ summary["last-updated"].kind = "updated"
            /\ \E i \in 1..Len(rows) :
                   summary["last-updated"].date = rows[i]["date"]
            /\ \A i \in 1..Len(rows) :
                   ~StrLess(summary["last-updated"].date, rows[i]["date"])

\* three records, not in date order, self-performed and outsourced mixed
C8_Witness ==
    /\ phase = "loaded" /\ page = "internal"
    /\ Len(rows) = 3
    /\ StrLess(rows[3]["date"], rows[1]["date"])
    /\ StrLess(rows[1]["date"], rows[2]["date"])
    /\ summary["self"] = 1
    /\ summary["outsourced"] = 2
    /\ summary["total-pay"] > 0

\* the YYYY-MM prefixes of the records
MonthSet(rs) == { Slice0(rs[i]["date"], 7) : i \in 1..Len(rs) }

InMonth(rs, month) == { i \in 1..Len(rs) : Slice0(rs[i]["date"], 7) = month }

RECURSIVE SumOfValues(_, _)
SumOfValues(fn, K) ==
    IF K = {} THEN 0
    ELSE LET k == CHOOSE x \in K : TRUE
         IN  fn[k] + SumOfValues(fn, K \ {k})

\* C10: for a non-empty record set and each metric, the monthly series has
\* one bucket per distinct YYYY-MM prefix, in strictly ascending order; a
\* bucket's value before rounding is the sum of the metric over the records
\* of the month, so the buckets add up to the sum over all records; and the
\* value drawn is that sum rounded once.
C10_MonthlyBuckets ==
    (phase = "loaded" /\ page = "internal" /\ rows # <<>>
     /\ chartInterval = "month") =>
        LET monthly == Buckets(rows, chartMode, "month")
        IN  /\ DOMAIN monthly = MonthSet(rows)
            /\ \A m \in MonthSet(rows) :
                   monthly[m] = TotalAt(rows, InMonth(rows, m), chartMode)
            /\ SumOfValues(monthly, DOMAIN monthly) = Total(rows, chartMode)
            /\ chart.type = "bar"
            /\ Len(chart.labels) = Cardinality(MonthSet(rows))
            /\ { chart.labels[i] : i \in 1..Len(chart.labels) } = MonthSet(rows)
            /\ \A i \in 1..(Len(chart.labels) - 1) :
                   StrLess(chart.labels[i], chart.labels[i + 1])
            /\ Len(chart.data) = Len(chart.labels)
            /\ \A i \in 1..Len(chart.labels) :
                   chart.data[i] = MathRound(TotalAt(rows,
                                       InMonth(rows, chart.labels[i]), chartMode))

\* two months, the later one first in the file, and a month whose two half
\* units add up to one whole unit
C10_Witness ==
    /\ phase = "loaded" /\ page = "internal" /\ chartInterval = "month"
    /\ chartMode = "net_income"
    /\ Len(rows) = 3
    /\ Len(chart.labels) = 2
    /\ StrLess(rows[2]["date"], rows[1]["date"])
    /\ \E i \in 1..2 : chart.data[i] = 1 * Scale
    /\ \E m \in MonthSet(rows) :
           \E i \in InMonth(rows, m) : \E j \in InMonth(rows, m) :
               i # j /\ rows[i]["net_income"] = 5 /\ rows[j]["net_income"] = 5

\* the figures of the summary cards, without the "updated to" stamp
FiguresOf(cards) == [id \in DOMAIN cards \ {"last-updated"} |-> cards[id]]

\* the series a chart draws; no chart draws nothing
SeriesOf(drawn) == <<drawn.labels, drawn.data>>

\* the summary, the chart and the table are those of the record sets S
\* (summary), C (chart) and T (table)
ViewsShow(S, C, T) ==
    /\ FiguresOf(summary) = FiguresOf(UpdateSummary(page, S))
    /\ S # <<>> => summary = UpdateSummary(page, S)
    /\ SeriesOf(chart) =
           SeriesOf(RenderChart(page, C, chartMode, chartInterval, filters,
                                caption).chart)
    /\ table.rows = RenderTable(page, T).rows

\* C1 (as stated): once the data is loaded, the summary, the chart series
\* and the table are all computed from the records that pass the current
\* scope, month and event type.
C1_AllViewsFromFilteredRows ==
    phase = "loaded" =>
        LET filtered == GetFilteredRows(rows, filters)
        IN  ViewsShow(filtered, filtered, filtered)

\* C1 (amended): once the data is loaded, the summary and the chart series
\* are computed from the records that pass the current scope and month,
\* whatever the event type; only the table is computed from the records that
\* also pass the event type.
C1_ViewsFollowFilters ==
    phase = "loaded" =>
        LET scoped   == GetScopeAndMonthRows(rows, filters)
            filtered == GetFilteredRows(rows, filters)
        IN  ViewsShow(scoped, scoped, filtered)

\* an event type is selected and it hides a record that the summary counts
C1_Witness ==
    /\ phase = "loaded"
    /\ filters.eventType # ALL
    /\ Len(GetFilteredRows(rows, filters)) = 1
    /\ Len(GetScopeAndMonthRows(rows, filters)) = 2
    /\ summary["total-shifts"] = 2
    /\ Len(table.rows) = 1

\* C5 (as stated): in every reachable state the query string mirrors the
\* filter state: `view` is absent iff the scope is "all" and otherwise equals
\* it, `month` is absent iff the month is "all" and otherwise equals it.
C5_QueryMirrorsFilters ==
    /\ ("view" \in DOMAIN url) <=> (filters.scope # "all")
    /\ ("view" \in DOMAIN url) => url["view"] = filters.scope
    /\ ("month" \in DOMAIN url) <=> (filters.month # ALL)
    /\ ("month" \in DOMAIN url) => url["month"] = filters.month

AllZero(cards) == \A id \in DOMAIN cards \ {"last-updated"} : cards[id] = 0

\* C9: after a load that delivered records, whenever the filter state
\* matches no record the summary figures are all zero (none is NaN), the
\* stamp is the no-data-for-this-view text, the chart has no bucket and the
\* table shows the nothing-matches message.
C9_EmptyViewIsZero ==
    (phase = "loaded" /\ rows # <<>> /\ GetFilteredRows(rows, filters) = <<>>) =>
        /\ summary # Unrendered
        /\ AllZero(summary)
        /\ \A id \in DOMAIN summary \ {"last-updated"} : ~IsNaN(summary[id])
        /\ summary["last-updated"] = StampNoData
        /\ chart.labels = <<>> /\ chart.data = <<>>
        /\ page = "internal" => chart = NoChart
        /\ table = Shown("no-match", <<>>)

\* records are loaded, and the scope and the month each match some of them,
\* but no record matches both
C9_Witness ==
    /\ phase = "loaded"
    /\ Len(rows) = 2
    /\ filters.scope # "all" /\ filters.month # ALL
    /\ GetScopedRows(rows, filters) # <<>>
    /\ ApplyMonthFilter(rows, filters) # <<>>
    /\ GetFilteredRows(rows, filters) = <<>>
    /\ summary["total-shifts"] = 0

----------------------------------------------------------------------------
(* The day-level series                                                    *)

\* the greatest YYYY-MM prefix among the records
GreatestMonth(rs) ==
    CHOOSE m \in MonthSet(rs) : \A other \in MonthSet(rs) : ~StrLess(m, other)

\* the positions of the records of one date
OnDate(rs, date) == { i \in 1..Len(rs) : rs[i]["date"] = date }

\* the dates of the records at the positions I
DatesAt(rs, I) == { rs[i]["date"] : i \in I }

\* the labels of the chart are the dates D, ascending, each once
LabelsAre(D) ==
    /\ Len(chart.labels) = Cardinality(D)
    /\ { chart.labels[i] : i \in 1..Len(chart.labels) } = D
    /\ \A i \in 1..(Len(chart.labels) - 1) :
           StrLess(chart.labels[i], chart.labels[i + 1])
    /\ Len(chart.data) = Len(chart.labels)

\* the month the day-level series of the records is about: the pinned month
\* when records of it are given, else the greatest month
SeriesMonth(given) ==
    IF filters.month = ALL \/ filters.month \notin MonthSet(given)
    THEN GreatestMonth(given) ELSE filters.month

\* the internal chart by day: the days of one month, each with the rounded sum
\* of the selected metric
InternalDaySeries(given) ==
    /\ chart.labels # <<>>
    /\ \A i \in 1..Len(chart.labels) :
           Slice0(chart.labels[i], 7) = SeriesMonth(given)
    /\ LabelsAre(DatesAt(given, InMonth(given, SeriesMonth(given))))
    /\ \A i \in 1..Len(chart.labels) :
           chart.data[i] = MathRound(TotalAt(given, OnDate(given, chart.labels[i]),
                                             chartMode))

\* the sum of ot_minutes the public chart shows for the positions I: NaN as
\* soon as one of the values is NaN
MinutesAt(rs, I) ==
    IF \E i \in I : IsNaN(rs[i]["ot_minutes"]) THEN NaN
    ELSE TotalAt(rs, I, "ot_minutes")

\* C11 (as stated): by day, the series holds days of a single month only, the
\* pinned month or else the greatest month among the given records, one
\* bucket per date of that month with the sum of the day, and it is not empty
\* when records are given; in the internal chart by day and in the public
\* chart, which is by day.
C11_DaySeriesOneMonth ==
    (phase = "loaded" /\ GetScopeAndMonthRows(rows, filters) # <<>>) =>
        LET given == GetScopeAndMonthRows(rows, filters)
        IN  /\ (page = "internal" /\ chartInterval = "day") =>
                   InternalDaySeries(given)
            /\ page = "public" =>
                   /\ chart.labels # <<>>
                   /\ \A i \in 1..Len(chart.labels) :
                          Slice0(chart.labels[i], 7) = SeriesMonth(given)
                   /\ LabelsAre(DatesAt(given, InMonth(given, SeriesMonth(given))))

\* C11 (amended): the internal chart by day holds the days of a single month
\* as stated; the public chart holds one bucket per distinct date of all the
\* given records, whatever their months, with the sum of ot_minutes of the
\* day.  Both are not empty when records are given.
C11_DaySeriesByPage ==
    (phase = "loaded" /\ GetScopeAndMonthRows(rows, filters) # <<>>) =>
        LET given == GetScopeAndMonthRows(rows, filters)
        IN  /\ (page = "internal" /\ chartInterval = "day") =>
                   InternalDaySeries(given)
            /\ page = "public" =>
                   /\ chart.labels # <<>>
                   /\ LabelsAre(DatesAt(given, 1..Len(given)))
                   /\ \A i \in 1..Len(chart.labels) :
                          chart.data[i] =
                              MinutesAt(given, OnDate(given, chart.labels[i]))

\* the internal chart by day with no month pinned, records of two months
\* given, the earlier month last in the file, and the series is the one day
\* of the later month
C11_Witness ==
    /\ phase = "loaded" /\ page = "internal" /\ chartInterval = "day"
    /\ filters.month = ALL
    /\ Len(GetScopeAndMonthRows(rows, filters)) = 2
    /\ StrLess(rows[2]["date"], rows[1]["date"])
    /\ Cardinality(MonthSet(rows)) = 2
    /\ chart.labels = <<rows[1]["date"]>>

----------------------------------------------------------------------------
(* The table of a long file: the session with an empty query string and    *)
(* files of up to MaxTableRows rows, followed through the load and the     *)
(* month and event-type selects.                                           *)

\* the longest file of the table specification, in rows
MaxTableRows == 22

DigitChar(n) == CHOOSE c \in Digits : DigitVal(c) = n

\* the k-th day of 2024-01
TableDate(k) ==
    <<"2", "0", "2", "4", "-", "0", "1", "-", DigitChar(k \div 10),
      DigitChar(k % 10)>>

TableShapes == {"ascending", "descending", "rotated", "paired"}

\* the day of the i-th row of a file of n rows
TableDay(shape, n, i) ==
    CASE shape = "ascending"  -> i
      [] shape = "descending" -> n + 1 - i
      [] shape = "rotated"    -> ((i + n \div 2) % n) + 1
      [] shape = "paired"     -> (i + 1) \div 2

\* a file of n rows: open mic shifts, in the paired shape every second row a
\* workshop of the same day
TableFile(shape, n) ==
    [i \in 1..n |->
        [(IF shape = "paired" /\ i % 2 = 0 THEN RowWorkshop ELSE RowOpenMic)
            EXCEPT !["date"] = TableDate(TableDay(shape, n, i))]]

TableFiles(pg) ==
    LET full == { TableFile(shape, n) : shape \in TableShapes,
                                        n \in 0..MaxTableRows }
    IN  IF pg = "internal" THEN full
        ELSE { [i \in 1..Len(file) |-> PublicRow(file[i])] : file \in full }

InitTable ==
    /\ page \in Pages
    /\ url = [p \in {} |-> ""]
    /\ \E data \in TableFiles(page) : csv = [ok |-> TRUE, data |-> data]
    /\ phase = "loading"
    /\ rows = <<>>
    /\ filters = [eventType |-> ALL,
                  scope     |-> GetInitialScope(url),
                  month     |-> GetInitialMonth(url)]
    /\ chartInterval = "month"
    /\ chartMode = "total_pay"
    /\ monthOptions = <<ALL>>
    /\ eventOptions = <<ALL>>
    /\ summary = Unrendered
    /\ chart = NoChart
    /\ canvas = TRUE
    /\ instances = NoInstances
    /\ caption = Caption("month", <<>>)
    /\ table = Shown("none", <<>>)
    /\ out = NoOut

NextTable ==
    \/ LoadDone
    \/ \E month \in Elements(monthOptions) : phase = "loaded" /\ MonthChange(month)
    \/ \E eventType \in Elements(eventOptions) :
           phase = "loaded" /\ EventChange(eventType)

SpecTable == InitTable /\ [][NextTable]_vars

\* how often a record occurs in a sequence
Occurrences(rs, r) == Cardinality({ i \in 1..Len(rs) : rs[i] = r })

\* the table rows are n of the filtered records, latest date first, and no
\* record left out is of a later date than a record shown
TableShowsLatest(filtered, n) ==
    /\ Len(table.rows) = n
    /\ \A i \in 1..Len(table.rows) :
           Occurrences(table.rows, table.rows[i])
               <= Occurrences(filtered, table.rows[i])
    /\ \A i \in 1..Len(table.rows) : \A j \in 1..Len(table.rows) :
           i < j => ~StrLess(table.rows[i]["date"], table.rows[j]["date"])
    /\ \A k \in 1..Len(filtered) :
           Occurrences(table.rows, filtered[k]) < Occurrences(filtered, filtered[k])
               => \A i \in 1..Len(table.rows) :
                      ~StrLess(table.rows[i]["date"], filtered[k]["date"])

\* C12 (as stated): the table never holds more than 20 rows; it holds
\* min(20, n) of the n filtered records, latest date first, and every record
\* shown is of a date not earlier than any filtered record left out; in the
\* internal and in the public dashboard.
C12_TableCapped ==
    phase = "loaded" =>
        LET filtered == GetFilteredRows(rows, filters)
        IN  /\ Len(table.rows) <= TableCap
            /\ TableShowsLatest(filtered, IF Len(filtered) < TableCap
                                          THEN Len(filtered) ELSE TableCap)

\* C12 (amended): the internal table holds min(20, n) of the n filtered
\* records as stated; the public table is not capped and holds all n filtered
\* records, latest date first.
C12_TableByPage ==
    phase = "loaded" =>
        LET filtered == GetFilteredRows(rows, filters)
        IN  /\ page = "internal" =>
                   /\ Len(table.rows) <= TableCap
                   /\ TableShowsLatest(filtered, IF Len(filtered) < TableCap
                                                 THEN Len(filtered) ELSE TableCap)
            /\ page = "public" => TableShowsLatest(filtered, Len(filtered))

\* the internal table of a file of 22 rows that starts with its earliest
\* dates: 20 rows are shown and the first two rows of the file are left out
C12_Witness ==
    /\ phase = "loaded" /\ page = "internal"
    /\ Len(GetFilteredRows(rows, filters)) = 22
    /\ StrLess(rows[1]["date"], rows[2]["date"])
    /\ StrLess(rows[2]["date"], rows[3]["date"])
    /\ Len(table.rows) = 20
    /\ table.rows[20] = rows[3]

----------------------------------------------------------------------------
(* Scope classification as a function: one record set of two records whose *)
(* event types are two spellings of the same words, any scope, one         *)
(* application of getScopedRows().                                         *)

\* event types in their plain spelling: lower case, no diacritics, one space
\* between words
PlainOpenMic == <<"o", "p", "e", "n", " ", "m", "i", "c">>
PlainTheOpenMic == <<"t", "h", "e", " ", "o", "p", "e", "n", " ", "m", "i", "c">>
PlainDemNhac == <<"d", "e", "m", " ", "n", "h", "a", "c">>
PlainBoth == <<"o", "p", "e", "n", " ", "m", "i", "c", " ", "-", " ", "d", "e", "m", " ", "n", "h", "a", "c">>
PlainWorkshop == <<"w", "o", "r", "k", "s", "h", "o", "p">>
PlainMicOpen == <<"m", "i", "c", " ", "o", "p", "e", "n">>
PlainNhacDem == <<"n", "h", "a", "c", " ", "d", "e", "m">>

PlainEventTypes ==
    {PlainOpenMic, PlainTheOpenMic, PlainDemNhac, PlainBoth, PlainWorkshop,
     PlainMicOpen, PlainNhacDem, <<>>}

\* the scopes with a predicate that a plain spelling belongs to
PlainScopes(e) ==
    CASE e = PlainOpenMic    -> {"open_mic"}
      [] e = PlainTheOpenMic -> {"open_mic"}
      [] e = PlainDemNhac    -> {"live_show"}
      [] e = PlainBoth       -> {"open_mic", "live_show"}
      [] OTHER               -> {}

UpperCase(c) ==
    CASE c = "a" -> "A" [] c = "c" -> "C" [] c = "d" -> "D" [] c = "e" -> "E"
      [] c = "h" -> "H" [] c = "i" -> "I" [] c = "m" -> "M" [] c = "n" -> "N"
      [] c = "o" -> "O" [] c = "p" -> "P" [] c = "t" -> "T" [] c = "w" -> "W"
      [] c = "U+00EA" -> "U+00CA" [] c = "U+1EA1" -> "U+1EA0"
      [] c = "U+0111" -> "U+0110"
      [] OTHER -> c

\* the letter with its Vietnamese diacritic or stroke, precomposed
Accented(c) ==
    CASE c = "e" -> "U+00EA" [] c = "E" -> "U+00CA"
      [] c = "a" -> "U+1EA1" [] c = "A" -> "U+1EA0"
      [] c = "d" -> "U+0111" [] c = "D" -> "U+0110"
      [] OTHER -> c

\* the letter followed by its combining mark
Marked(c) ==
    CASE c = "e" -> <<"e", "U+0302">> [] c = "E" -> <<"E", "U+0302">>
      [] c = "a" -> <<"a", "U+0323">> [] c = "A" -> <<"A", "U+0323">>
      [] OTHER -> <<c>>

RECURSIVE Respell(_, _)
Respell(how, e) ==
    IF e = <<>> THEN <<>>
    ELSE LET c == Head(e)
             rest == Respell(how, Tail(e))
         IN  CASE how = "upper"    -> <<UpperCase(c)>> \o rest
               [] how = "capital"  -> <<UpperCase(c)>> \o Tail(e)
               [] how = "accented" -> <<Accented(c)>> \o rest
               [] how = "marked"   -> Marked(c) \o rest
               [] how = "spaced"   -> <<c, " ">> \o rest
               [] how = "joined"   -> (IF c = " " THEN <<>> ELSE <<c>>) \o rest

Respellings == {"upper", "capital", "accented", "marked", "spaced", "joined"}

\* the number of respellings applied one after the other
MaxRespellings == 2

\* the spellings of e that differ from it in letter case, diacritics (the
\* stroke of U+0111 among them) and white space only
RECURSIVE Spellings(_, _)
Spellings(e, n) ==
    IF n = 0 THEN {e}
    ELSE LET fewer == Spellings(e, n - 1)
         IN  fewer \cup { Respell(how, v) : how \in Respellings, v \in fewer }

\* a row with the given event type
RowOfType(e) == [RowOpenMic EXCEPT !["event_type"] = e]

\* a row of a file without the event_type column
RowNoType == Restrict(RowOpenMic, InternalColumns \ {"event_type"})

InitScope ==
    /\ page = "internal"
    /\ url = [p \in {} |-> ""]
    /\ \E e \in PlainEventTypes :
       \E v \in Spellings(e, MaxRespellings) \cup {<<"absent">>} :
           /\ csv = [ok |-> TRUE,
                     data |-> <<RowOfType(e),
                                IF v = <<"absent">> THEN RowNoType
                                ELSE RowOfType(v)>>]
           /\ rows = LoadCsv(page, csv.data)
    /\ phase = "loaded"
    /\ filters \in [eventType : {ALL}, scope : ScopeKeys, month : {ALL}]
    /\ chartInterval = "month"
    /\ chartMode = "total_pay"
    /\ monthOptions = <<ALL>>
    /\ eventOptions = <<ALL>>
    /\ summary = Unrendered
    /\ chart = NoChart
    /\ canvas = TRUE
    /\ instances = NoInstances
    /\ caption = Caption("month", <<>>)
    /\ table = Shown("none", <<>>)
    /\ out = NoOut

\* out.rows becomes getScopedRows()
ScopeStep ==
    /\ ~out.done
    /\ out' = [done |-> TRUE, rows |-> GetScopedRows(rows, filters)]
    /\ UNCHANGED <<page, url, csv, phase, rows, filters, chartInterval,
                   chartMode, monthOptions, eventOptions, summary, chart,
                   caption, table, canvas, instances>>

NextScope == ScopeStep

SpecScope == InitScope /\ [][NextScope]_vars

\* the scopes the i-th record of the file belongs to besides "all": those of
\* the plain spelling its event type is a spelling of, none when the file has
\* no event_type column
ScopesOfRecord(i) ==
    IF Has(csv.data[i], "event_type")
    THEN PlainScopes(csv.data[1]["event_type"])
    ELSE {}

\* C13: scope "all" keeps every record, also one with an empty or absent
\* event type; open_mic (live_show) keeps a record iff its event type,
\* without diacritics, in lower case, with the stroke folded and white space
\* removed, contains "openmic" ("demnhac"); two spellings that differ in case,
\* diacritics or white space only are classified alike, and an event type
\* with neither keyword is kept by "all" only.
C13_ScopeClassification ==
    out.done =>
        /\ filters.scope = "all" => out.rows = rows
        /\ out.rows = SelectSeq(rows, LAMBDA row :
               \E i \in 1..Len(rows) :
                   /\ rows[i] = row
                   /\ filters.scope = "all" \/ filters.scope \in ScopesOfRecord(i))
        /\ \A i \in 1..Len(rows) :
               (\E k \in 1..Len(out.rows) : out.rows[k] = rows[i])
                   <=> (filters.scope = "all" \/ filters.scope \in ScopesOfRecord(i))

\* scope live_show, "dem nhac" and a spelling of it in upper case with the
\* stroke and the diacritics: both records are kept
C13_Witness ==
    /\ out.done
    /\ filters.scope = "live_show"
    /\ csv.data[1]["event_type"] = PlainDemNhac
    /\ Has(csv.data[2], "event_type")
    /\ \E i \in 1..Len(csv.data[2]["event_type"]) :
           csv.data[2]["event_type"][i] = "U+0110"
    /\ \E i \in 1..Len(csv.data[2]["event_type"]) :
           csv.data[2]["event_type"][i] = "U+1EA0"
    /\ out.rows = rows
    /\ Len(rows) = 2

----------------------------------------------------------------------------
(* Net income                                                              *)

\* C14: a record of the internal loadCsv whose raw row carries a net_income
\* value has exactly that value as its net_income, also when the value is
\* zero; a record whose raw row has no net_income column or an empty one has
\* its total_pay minus its worker_payment.
C14_NetIncomeTrusted ==
    (phase = "loaded" /\ page = "internal") =>
        \A k \in 1..Len(rows) :
            LET raw == csv.data[SourceIndex(k)]
            IN  IF Truthy(raw, "net_income")
                THEN /\ rows[k]["net_income"] = Number(raw["net_income"])
                     /\ raw["net_income"] = <<"0">> => rows[k]["net_income"] = 0
                     /\ IsDecimal(raw["net_income"]) =>
                            rows[k]["net_income"] = DecimalValue(raw["net_income"])
                ELSE rows[k]["net_income"] =
                         Sub(rows[k]["total_pay"], rows[k]["worker_payment"])

\* a row whose net_income is "0" although its total_pay is more than its
\* worker_payment has been loaded
C14_Witness ==
    /\ phase = "loaded" /\ page = "internal"
    /\ \E k \in 1..Len(rows) :
           /\ Truthy(csv.data[SourceIndex(k)], "net_income")
           /\ csv.data[SourceIndex(k)]["net_income"] = <<"0">>
           /\ rows[k]["net_income"] = 0
           /\ rows[k]["worker_payment"] > 0
           /\ rows[k]["total_pay"] > rows[k]["worker_payment"]

----------------------------------------------------------------------------
(* Load failure                                                            *)

\* C15 (as stated): a load failure is final: the record snapshot stays
\* empty, the table shows the load-error message, and no later scope click,
\* month change, event-type change or chart-control change renders a
\* summary, a chart or a table, or puts another message in the table.
C15_LoadFailureIsTerminal ==
    phase = "failed" =>
        /\ rows = <<>>
        /\ table = Shown("load-error", <<>>)
        /\ summary = Unrendered
        /\ chart = NoChart

----------------------------------------------------------------------------
(* Filter changes while the load is in flight                              *)

\* the positions of the records that pass the scope and the month of f
PassingAt(rs, f) ==
    { i \in 1..Len(rs) : PassesScope(rs[i], f) /\ PassesMonth(rs[i], f) }

\* C16: handlers run before and after the load completes.  The step that
\* completes the load keeps the scope of that moment, and the month of that
\* moment unless no loaded record is of it; and after that step and after
\* every later step the summary counts the records of the current scope and
\* month, the chart has buckets of such records only and a bucket for each of
\* them by month, and the table shows such records only.
C16_NoStaleView ==
    [][ /\ (phase = "loading" /\ phase' = "loaded") =>
               /\ filters'.scope = filters.scope
               /\ \/ filters'.month = filters.month
                  \/ /\ filters'.month = ALL
                     /\ \A i \in 1..Len(rows') :
                            Slice0(rows'[i]["date"], 7) # filters.month
        /\ (phase' = "loaded" /\ rows' # <<>>) =>
               LET current == PassingAt(rows', filters')
               IN  /\ summary'["total-shifts"] = Cardinality(current)
                   /\ \A i \in 1..Len(table'.rows) :
                          \E k \in current :
                              table'.rows[i]["date"] = rows'[k]["date"]
                              /\ Text(table'.rows[i], "event_type")
                                     = Text(rows'[k], "event_type")
                   /\ \A i \in 1..Len(chart'.labels) :
                          \E k \in current :
                              chart'.labels[i] \in { rows'[k]["date"],
                                                     Slice0(rows'[k]["date"], 7) }
                   /\ (page' = "internal" /\ chartInterval' = "month") =>
                          { chart'.labels[i] : i \in 1..Len(chart'.labels) }
                              = { Slice0(rows'[k]["date"], 7) : k \in current }
      ]_vars

\* the scope was clicked while the load was in flight (the query string
\* still carries the month the session started with, which the load then
\* reset), and the loaded dashboard counts the one record of that scope
C16_Witness ==
    /\ phase = "loaded"
    /\ Len(rows) = 2
    /\ DOMAIN url = {"view", "month"}
    /\ url["view"] = "open_mic"
    /\ url["month"] = Month202312
    /\ filters.scope = "open_mic"
    /\ filters.month = ALL
    /\ summary["total-shifts"] = 1
    /\ Len(table.rows) = 1

----------------------------------------------------------------------------
(* The record snapshot                                                     *)

\* C17: the loaded records are the ingested rows of the file, in file order,
\* and once the load has completed no scope click, month change, event-type
\* change, chart-control change or rendering changes state.rows, its order
\* or a field of a record; also not the date sort of renderTable when the
\* filtered rows are state.rows itself.
C17_RowsNeverChange ==
    [][ /\ phase' = "loaded" => rows' = LoadCsv(page', csv'.data)
        /\ phase = "loaded" => rows' = rows ]_vars

\* scope, month and event type are "all", so renderTable was handed
\* state.rows itself; the table shows the later record first while
\* state.rows still has it last
C17_Witness ==
    /\ phase = "loaded"
    /\ ReturnsStateRows(filters)
    /\ Len(rows) = 2
    /\ StrLess(rows[1]["date"], rows[2]["date"])
    /\ table.rows = <<rows[2], rows[1]>>

----------------------------------------------------------------------------
(* applyScope                                                              *)

\* C18 (as stated): applyScope with the current scope or with a name that is
\* no key of VIEW_SCOPES changes nothing; with another key it sets the scope,
\* resets the event type to "all" and leaves the month and the records
\* alone; so the scope is a key of VIEW_SCOPES in every reachable state,
\* whatever the `view` parameter the session starts with.
C18_ScopeIsAlwaysAKey ==
    [][ /\ filters.scope \in ScopeKeys
        /\ filters'.scope \in ScopeKeys
        /\ filters'.scope # filters.scope =>
               /\ filters'.eventType = ALL
               /\ filters'.month = filters.month
               /\ rows' = rows ]_vars


----------------------------------------------------------------------------
(* The selected event type and month against the loaded records            *)

\* the raw event_type values of the records passing scope and month
EventTypesPassing(rs, f) ==
    LET scoped == GetScopeAndMonthRows(rs, f)
    IN  { scoped[i]["event_type"] : i \in 1..Len(scoped) }

\* C19: after a non-empty load, with event types picked from the select only,
\* state.filters.eventType is "all" or the event_type of at least one record
\* passing the current scope and month, so no month or scope change leaves
\* the table filtered by an event type absent from that record set.
C19_EventTypeOccurs ==
    (phase = "loaded" /\ rows # <<>>) =>
        \/ filters.eventType = ALL
        \/ filters.eventType \in EventTypesPassing(rows, filters)

\* C19: two months are loaded, one month is selected and the table is
\* filtered by an event type of that month, while the other month holds
\* another event type.
C19_Witness ==
    /\ phase = "loaded"
    /\ Cardinality(MonthsOf(rows)) = 2
    /\ filters.month # ALL
    /\ filters.eventType # ALL
    /\ filters.eventType \in EventTypesPassing(rows, filters)
    /\ filters.eventType \notin
           EventTypesPassing(rows, [filters EXCEPT !.month =
               CHOOSE m \in MonthsOf(rows) : m # filters.month])

\* the YYYY-MM prefixes of the dates of the loaded records
LoadedMonths(rs) == { MonthOf(rs[i]) : i \in 1..Len(rs) }

----------------------------------------------------------------------------
(* The chart's life: the session on a page with or without the canvas, in  *)
(* a document from which the canvas may be taken out between two events.   *)

InitChart ==
    /\ page \in Pages
    /\ url \in Urls
    /\ \E ok \in BOOLEAN : \E data \in Files(page) :
           csv = [ok |-> ok, data |-> IF ok THEN data ELSE <<>>]
    /\ phase = "loading"
    /\ rows = <<>>
    /\ filters = [eventType |-> ALL,
                  scope     |-> GetInitialScope(url),
                  month     |-> GetInitialMonth(url)]
    /\ chartInterval = "month"
    /\ chartMode = "total_pay"
    /\ monthOptions = <<ALL>>
    /\ eventOptions = <<ALL>>
    /\ summary = Unrendered
    /\ chart = NoChart
    /\ canvas \in BOOLEAN
    /\ instances = NoInstances
    /\ caption = Caption("month", <<>>)
    /\ table = Shown("none", <<>>)
    /\ out = NoOut

\* the canvas leaves the document: from now on getElementById finds nothing
CanvasDetached ==
    /\ canvas
    /\ canvas' = FALSE
    /\ UNCHANGED <<page, url, csv, phase, rows, filters, chartInterval,
                   chartMode, monthOptions, eventOptions, summary, chart,
                   caption, table, instances, out>>

NextChart ==
    \/ LoadDone
    \/ LoadFail
    \/ \E scope \in ScopeButtons : ScopeClick(scope)
    \/ \E month \in Elements(monthOptions) : MonthChange(month)
    \/ \E eventType \in Elements(eventOptions) : EventChange(eventType)
    \/ \E metric \in ChartModes : ChartModeChange(metric)
    \/ \E interval \in ChartIntervals : ChartIntervalChange(interval)
    \/ CanvasDetached

SpecChart == InitChart /\ [][NextChart]_vars

\* C21 (as stated): across any sequence of renders at most one Chart is live
\* at a time (each is destroyed before the next is constructed), no Chart is
\* destroyed more than once, and state.chart, when it is not null, holds a
\* live Chart, also when drawChart finds no canvas and when a render of no
\* rows follows a render of rows.
C21_ChartLifecycle ==
    /\ instances.live <= 1
    /\ ~instances.twice
    /\ instances.ref \in {"null", "live"}

=============================================================================
